---- MODULE Spec2Model ----
(***************************************************************************)
(* DRF-API-Logger: the buffered logging pipeline of                        *)
(* drf_api_logger/insert_log_into_database.py.                             *)
(*                                                                         *)
(* Request threads (producers) call put_log_data; the background thread    *)
(* InsertLogIntoDatabase runs start_queue_process; the SIGINT/SIGTERM      *)
(* handler _clean_exit runs on a signal.  All three reach                  *)
(* _start_bulk_insertion, whose loop `while not empty(): get()` is several *)
(* steps of the thread that runs it, so every interleaving of these steps  *)
(* is a behaviour of the model.  The handler is no thread of its own:      *)
(* signal.signal makes it run in the main thread, on top of whatever that  *)
(* thread was doing, which goes on only when the handler has returned.     *)
(***************************************************************************)
EXTENDS Integers, Sequences, FiniteSets, TLC

\* Configured capacity of the queue (settings.DRF_LOGGER_QUEUE_MAX_SIZE).
DRF_LOGGER_QUEUE_MAX_SIZE == 2
\* Number of put_log_data calls the model explores.
MaxRecords == 3
\* Number of termination signals the model delivers.
MaxSignals == 1

Producers == {"p1", "p2"}
Flusher == "flusher"
\* The frame of _clean_exit, on the stack of the main thread.
Handler == "signal"
Threads == Producers \cup {Flusher, Handler}
\* The main thread of the process: the constructor, run there, registers
\* the handler (signal.signal works nowhere else).  It serves requests too,
\* as in a server without worker threads; when it serves none it stays idle.
Main == "p1"

\* bulk_create returns, raises django.db.utils.OperationalError, or raises
\* some other Exception.
SinkOutcomes == {"ok", "OperationalError", "Exception"}

VARIABLES
    queue,        \* self._queue: the records waiting, oldest first
    pc,           \* where each thread is
    bulk_item,    \* _start_bulk_insertion's local list, per thread
    stop_event,   \* self._stop_event
    sink,         \* every bulk_create call made: its batch and its outcome
    printed,      \* number of 'DRF API LOGGER EXCEPTION:' lines printed
    enqueued,     \* number of completed queue.put calls; the n-th record put is n
    signals,      \* number of signals delivered so far
    drain_mark,   \* history: `enqueued` at the first get of a thread's current drain
    brought_full, \* history: the producer's last put made qsize equal the capacity
    at_exit,      \* history: the records queued when the running _clean_exit was invoked
    \* InsertLogIntoDatabase.__init__
    settings,     \* the Django settings the constructor reads
    in_main,      \* whether the constructor runs in the main thread
    thread,       \* what the constructor produced
    startup,      \* the process at start-up: environment, threads, LOGGER_THREAD
    \* _EventSlot (API_LOGGER_SIGNAL.listen) and the middleware's delivery
    targets,      \* _EventSlot.targets, of each slot object there is
    listen,       \* API_LOGGER_SIGNAL.__dict__['listen']: the slot in place
    held,         \* the slot each thread has got from API_LOGGER_SIGNAL.listen
    snapshot,     \* tuple(self.targets) of the running dispatch
    invoked,      \* the subscribers the running dispatch has called, in order
    rpc,          \* where the request thread is in the middleware's delivery
    mpc,          \* what the thread that subscribes and unsubscribes has yet to do
    callback,     \* the callback f of the running `+=` or `-=`
    db_on,        \* DRF_API_LOGGER_DATABASE and LOGGER_THREAD
    signal_on,    \* DRF_API_LOGGER_SIGNAL
    enq,          \* the request's record has been put in the queue
    \* utils.mask_sensitive_data
    arg,          \* the object the caller passes as `data`, as it is now
    flag,         \* the caller's mask_api_parameters
    result,       \* what the call returned
    passed,       \* history: the object as it was when the call was made
    \* APILoggerMiddleware.is_static_or_media_request
    path,         \* request.path
    STATIC_URL,   \* settings.STATIC_URL
    MEDIA_URL,    \* settings.MEDIA_URL
    is_static,    \* how the call ended
    \* APILoggerMiddleware.__call__, one request
    conf,         \* the settings the middleware keeps for the whole request
    at,           \* where the request thread is in __call__
    seen,         \* the settings and inputs the step just taken has read
    skipped,      \* the filter that rejected the request, "no" if none
    method,       \* request.method
    status_code,  \* response.status_code
    request_data, \* the local request_data
    tracing_id,   \* the local tracing_id
    request_tracing_id, \* request.tracing_id
    response_body,      \* the local response_body
    content_types,      \* self.DRF_API_LOGGER_CONTENT_TYPES
    record,       \* the local `data`, the dict of lines 199-209
    queued,       \* the records passed to LOGGER_THREAD.put_log_data
    dispatched,   \* the records passed to API_LOGGER_SIGNAL.listen
    view          \* the calls of self.get_response, and what __call__ returned

pipeline_vars == <<queue, pc, bulk_item, stop_event, sink, printed, enqueued,
                   signals, drain_mark, brought_full, at_exit>>
config_vars == <<settings, in_main, thread, startup>>
dispatch_vars == <<targets, listen, held, snapshot, invoked, rpc, mpc,
                   callback, db_on, signal_on, enq>>

redact_vars == <<arg, flag, result, passed>>
static_vars == <<path, STATIC_URL, MEDIA_URL, is_static>>
middleware_vars == <<conf, at, seen, skipped, method, status_code, request_data,
                     tracing_id, request_tracing_id, response_body,
                     content_types, record, queued, dispatched, view>>
builder_vars == <<redact_vars, static_vars, middleware_vars>>

vars == <<pipeline_vars, config_vars, dispatch_vars, builder_vars>>

\* What the pipeline's steps leave alone.
outside_pipeline == <<config_vars, dispatch_vars, builder_vars>>

Range(s) == {s[i] : i \in DOMAIN s}

----------------------------------------------------------------------------
(* queue.Queue(maxsize) as the code uses it *)

\* Queue.put blocks while the queue holds maxsize items.
PutAllowed(q) == Len(q) < DRF_LOGGER_QUEUE_MAX_SIZE

\* Queue.empty()
QueueEmpty(q) == q = <<>>

\* Queue.get() removes the oldest item (and blocks while there is none).
AfterGet(q) == Tail(q)

\* put_log_data's test `self._queue.qsize() >= self.DRF_LOGGER_QUEUE_MAX_SIZE`
BadCapacityReached(q) == Len(q) > DRF_LOGGER_QUEUE_MAX_SIZE
CapacityReached(q) == Len(q) >= DRF_LOGGER_QUEUE_MAX_SIZE

\* bulk_item.append(self._queue.get()): the oldest item goes to the end of
\* the list.
BadAppended(bulk, q) == <<Head(q)>> \o bulk
Appended(bulk, q) == Append(bulk, Head(q))

\* The steps of _start_bulk_insertion.
Draining == {"empty", "get", "insert"}

\* queue.Queue guards put, get, empty and qsize with one threading.Lock.  A
\* handler that starts while the main thread is inside one of them waits at
\* its own Queue.empty for a lock that is released only by the code it
\* keeps from running.
MutexFree(frames) == frames[Handler] # "mutex"

\* The main thread's own code does not run while the handler is on top of it.
Suspended(t, frames) == t = Main /\ frames[Handler] \in Draining \cup {"mutex"}

\* Thread t is at a Queue call, and can be inside it with the lock held: put
\* and get take the lock before they look at the queue, and again when a
\* wait of theirs ends; qsize and empty hold it throughout.
InQueueCall(t, frames) == frames[t] \in {"put", "get", "qsize", "empty"}

----------------------------------------------------------------------------
(* where control goes *)

\* Where a thread continues when _start_bulk_insertion returns to it.
Returned(t) ==
    IF t \in Producers THEN "idle"           \* put_log_data returns
    ELSE IF t = Flusher THEN "while"         \* back to the loop test
    ELSE "returned"                          \* _clean_exit returns

\* start_queue_process: `while not self._stop_event.is_set():` goes on to
\* time.sleep, or ends the loop and with it run().
BadAfterLoopTest(stopped) == "sleep"
AfterLoopTest(stopped) == IF stopped THEN "stopped" ELSE "sleep"

\* `if bulk_item:` after the loop: an empty list is not handed to
\* _insert_into_data_base.
BadAfterLoop(t) == "insert"
AfterLoop(t) == IF bulk_item[t] # <<>> THEN "insert" ELSE Returned(t)

\* _insert_into_data_base: OperationalError is re-raised as Exception('Model
\* does not exist'), which no caller catches; any other exception is printed
\* and swallowed.  Only the main thread can have a signal handler run on top
\* of it, so only its position inside _insert_into_data_base is told apart:
\* "inserted" when bulk_create has returned and the try is not yet left,
\* "except" when `except Exception` has caught and print is yet to be called.
\* For another thread the call of bulk_create and what follows are one step.
BadAfterInsert(t, outcome) == Returned(t)
RaiseOnAnyFailure(t, outcome) ==
    IF outcome = "ok" THEN Returned(t) ELSE "raised"
AfterInsert(t, outcome) ==
    IF outcome = "OperationalError" THEN "raised"
    ELSE IF t # Main THEN Returned(t)
    ELSE IF outcome = "ok" THEN "inserted"
    ELSE "except"

\* The `except Exception as e: print(...)` branch.
Prints(outcome) == IF outcome = "Exception" THEN 1 ELSE 0

Calls == Cardinality({p \in Producers : pc[p] = "put"}) + enqueued

----------------------------------------------------------------------------
(* InsertLogIntoDatabase.__init__ *)

\* The constructor's defaults.
DefaultQueueMaxSize == 50
DefaultInterval == 10
DefaultDatabase == "default"

\* Largest value of a numeric setting the model tries (the smallest is -1).
MaxSetting == 2

\* A setting is absent (hasattr is false) or has a value.
Absent(v) == [set |-> FALSE, value |-> v]
Given(v) == [set |-> TRUE, value |-> v]
NumericSettings == {Absent(0)} \cup {Given(n) : n \in -1..MaxSetting}
DatabaseSettings == {Absent(""), Given("default"), Given("custom_db")}
\* DRF_API_LOGGER_CUSTOM_HANDLER: not set, a dotted path that imports, or one
\* that does not.
HandlerSettings == {"absent", "importable", "unimportable"}

\* self.DRF_API_LOGGER_DEFAULT_DATABASE
Database(s) ==
    IF s.database.set THEN s.database.value ELSE DefaultDatabase

\* self.DRF_LOGGER_QUEUE_MAX_SIZE
QueueMaxSize(s) ==
    IF s.capacity.set THEN s.capacity.value ELSE DefaultQueueMaxSize

\* self.DRF_LOGGER_INTERVAL
Interval(s) ==
    IF s.interval.set THEN s.interval.value ELSE DefaultInterval

\* `if self.DRF_LOGGER_QUEUE_MAX_SIZE < 1: raise`
BadQueueMaxSizeInvalid(s) == QueueMaxSize(s) < 0
QueueMaxSizeInvalid(s) == QueueMaxSize(s) < 1

\* `if self.DRF_LOGGER_INTERVAL < 1: raise`, tested only when the setting is
\* present.
IntervalInvalid(s) == s.interval.set /\ Interval(s) < 1

\* The constructor, statement by statement: the first failing one decides the
\* exception; signal.signal raises ValueError outside the main thread.
Construct(s, main) ==
    IF QueueMaxSizeInvalid(s) THEN
        [error |-> "DRF_LOGGER_QUEUE_MAX_SIZE must be greater than 0"]
    ELSE IF IntervalInvalid(s) THEN
        [error |-> "DRF_LOGGER_INTERVAL must be greater than 0"]
    ELSE IF s.handler = "unimportable" THEN
        [error |-> "ImportError"]
    ELSE IF ~main THEN
        [error |-> "ValueError"]
    ELSE
        [error |-> "none",
         database |-> Database(s),
         capacity |-> QueueMaxSize(s),
         interval |-> Interval(s)]

NotConstructed == [error |-> "not constructed"]

\* Number of LoggerConfig.ready() calls the model makes.
MaxReady == 2

\* os.environ.get('RUN_MAIN'): None, 'true', or another value.
RunMainValues == {"unset", "true", "false"}

\* The process before any start-up code has run.  `named` counts the live
\* threads whose name is 'insert_log_into_database', `created` the threads
\* the start-up code has created and started; LOGGER_THREAD is apps.py's
\* global (0 is None, n the n-th thread created); `imported` tells that
\* start_logger_when_server_starts is in sys.modules; `pending` tells which
\* start-up code has come back from t.start() and not yet bound the thread.
NoStartup ==
    [RUN_MAIN |-> "unset", enabled |-> FALSE, named |-> 0, created |-> 0,
     LOGGER_THREAD |-> 0, calls |-> 0, imported |-> FALSE, raised |-> FALSE,
     pending |-> "none"]

ConfigIdle ==
    /\ settings = [capacity |-> Absent(0), interval |-> Absent(0),
                   database |-> Absent(""), handler |-> "absent"]
    /\ in_main = TRUE
    /\ thread = NotConstructed
    /\ startup = NoStartup

ConfigInit ==
    /\ settings \in [capacity : NumericSettings, interval : NumericSettings,
                     database : DatabaseSettings, handler : HandlerSettings]
    /\ in_main \in BOOLEAN
    /\ thread = NotConstructed
    /\ startup = NoStartup

\* t = InsertLogIntoDatabase()
NewThread ==
    /\ thread = NotConstructed
    /\ thread' = Construct(settings, in_main)
    /\ UNCHANGED <<settings, in_main, startup>>

----------------------------------------------------------------------------
(* LoggerConfig.ready and start_logger_when_server_starts *)

\* apps.py lines 31-34: RUN_MAIN is 'true' or is not set.
ShouldStartThread(run_main) == run_main = "true" \/ run_main = "unset"

\* apps.py lines 45-49: threading.enumerate(), which lists the threads that
\* are alive, holds one with the name.
BadAlreadyExists(s) == FALSE
AlreadyExists(s) == s.named > 0

\* apps.py lines 53-56: t = InsertLogIntoDatabase() and, when the constructor
\* has not raised, t.name = LOG_THREAD_NAME; t.start(), which returns when
\* the new thread is running.  The caller `by` has yet to bind the thread.
StartThread(s, t, by) ==
    IF t.error = "none"
    THEN [s EXCEPT !.created = @ + 1, !.named = @ + 1, !.pending = by]
    ELSE [s EXCEPT !.raised = TRUE]

\* The settings the start-up code is run with, and the process it runs in:
\* the name may already be borne by a live thread.
ReadyInit ==
    /\ settings \in [capacity : NumericSettings, interval : {Absent(0)},
                     database : {Absent("")}, handler : {"absent"}]
    /\ in_main \in BOOLEAN
    /\ thread = NotConstructed
    /\ startup \in [RUN_MAIN : RunMainValues, enabled : BOOLEAN, named : {0, 1},
                    created : {0}, LOGGER_THREAD : {0}, calls : {0},
                    imported : {FALSE}, raised : {FALSE}, pending : {"none"}]

\* LoggerConfig.ready(), up to the return of t.start() at line 56.
Ready ==
    /\ startup.calls < MaxReady
    /\ startup.pending = "none"
    /\ LET s == [startup EXCEPT !.calls = @ + 1, !.raised = FALSE]
       IN  IF /\ ShouldStartThread(s.RUN_MAIN)
              /\ s.enabled
              /\ ~AlreadyExists(s)
           THEN /\ thread' = Construct(settings, in_main)
                /\ startup' = StartThread(s, thread', "ready")
           ELSE /\ startup' = s
                /\ UNCHANGED thread
    /\ UNCHANGED <<settings, in_main>>

\* An import of start_logger_when_server_starts while the module is not in
\* sys.modules runs the module: the same test without RUN_MAIN, up to the
\* return of t.start() at line 21.  A module whose body raised is not kept in
\* sys.modules, and the next import runs the body again.
ImportStartLogger ==
    /\ ~startup.imported
    /\ startup.pending = "none"
    /\ LET s == [startup EXCEPT !.raised = FALSE]
       IN  IF s.enabled /\ ~AlreadyExists(s)
           THEN /\ thread' = Construct(settings, in_main)
                /\ startup' = [StartThread(s, thread', "import") EXCEPT
                                  !.imported = (thread'.error = "none")]
           ELSE /\ startup' = [s EXCEPT !.imported = TRUE]
                /\ UNCHANGED thread
    /\ UNCHANGED <<settings, in_main>>

\* `LOGGER_THREAD = t`: apps.py line 57 binds the global of apps.py, line 22
\* of start_logger_when_server_starts the module's own one.  The thread has
\* been running since t.start() returned.
BindLoggerThread ==
    /\ startup.pending # "none"
    /\ startup' = [startup EXCEPT
                      !.pending = "none",
                      !.LOGGER_THREAD = IF startup.pending = "ready"
                                        THEN startup.created ELSE @]
    /\ UNCHANGED <<settings, in_main, thread>>

\* A live thread of that name ends: run() returns when start_queue_process
\* has seen the stop flag, or an exception leaves it.
ThreadEnds ==
    /\ startup.named > 0
    /\ startup' = [startup EXCEPT !.named = @ - 1]
    /\ UNCHANGED <<settings, in_main, thread>>

----------------------------------------------------------------------------
(* _EventSlot, and the middleware's delivery of one record to both channels *)

\* The callbacks that subscribe; "bad" raises when it is called.
Callbacks == {"f", "g", "bad"}
Raises(c) == c = "bad"

\* Longest subscriber list the model builds.
MaxTargets == 3

\* API_LOGGER_SIGNAL = Events() has no slot `listen` until the attribute is
\* first read: Events.__getattr__ then makes one.  A thread makes at most one,
\* so a slot object is named after the thread whose __getattr__ made it: the
\* thread that subscribes and unsubscribes, or the request thread.
SlotObjects == {"m", "r"}
NoSlot == "none"

\* list.remove(f): the first occurrence goes, the rest keep their order.
RemoveFirst(l, c) ==
    LET i == CHOOSE k \in DOMAIN l : l[k] = c /\ \A j \in 1..(k - 1) : l[j] # c
    IN  SubSeq(l, 1, i - 1) \o SubSeq(l, i + 1, Len(l))

\* The number of times c is in list l.
Count(l, c) == Cardinality({i \in DOMAIN l : l[i] = c})

\* The request thread has left the middleware's delivery (or not entered it).
Ended == {"idle", "returned", "raised_put", "raised_listen"}

\* `if self.DRF_API_LOGGER_SIGNAL:` after the database branch
AfterDatabaseBranch == IF signal_on THEN "listen" ELSE "returned"

DispatchIdle ==
    /\ targets = [o \in SlotObjects |-> <<>>]
    /\ listen = NoSlot
    /\ held = [o \in SlotObjects |-> NoSlot]
    /\ snapshot = <<>>
    /\ invoked = <<>>
    /\ rpc = "idle"
    /\ mpc = <<>>
    /\ callback = "f"
    /\ db_on = FALSE
    /\ signal_on = FALSE
    /\ enq = FALSE

\* API_LOGGER_SIGNAL = Events(): no slot and no subscriber yet; the two
\* channels are switched on or off by the settings.
DispatchInit ==
    /\ targets = [o \in SlotObjects |-> <<>>]
    /\ listen = NoSlot
    /\ held = [o \in SlotObjects |-> NoSlot]
    /\ snapshot = <<>>
    /\ invoked = <<>>
    /\ rpc = "idle"
    /\ mpc = <<>>
    /\ callback = "f"
    /\ db_on \in BOOLEAN
    /\ signal_on \in BOOLEAN
    /\ enq = FALSE

\* `API_LOGGER_SIGNAL.listen += c` and `API_LOGGER_SIGNAL.listen -= c` begin
\* by reading the attribute: that gives the slot in place, or, when there is
\* none, Events.__getattr__ is entered (lines 55-67 let the name pass).
BeginSubscribe(c, op) ==
    /\ mpc = <<>>
    /\ op = "iadd" => \A o \in SlotObjects : Len(targets[o]) < MaxTargets
    /\ callback' = c
    /\ mpc' = IF listen = NoSlot THEN <<"getattr", op>> ELSE <<op>>
    /\ held' = [held EXCEPT !["m"] = listen]
    /\ UNCHANGED <<targets, listen, snapshot, invoked, rpc, db_on, signal_on,
                   enq>>

\* Events.__getattr__ line 70: self.__dict__[name] = ev = _EventSlot(name).
\* The new slot, with no target, goes over whatever is in place by now.
StoreNewSlot(t) ==
    /\ IF t = "m" THEN mpc # <<>> /\ Head(mpc) = "getattr"
       ELSE rpc = "getattr"
    /\ targets' = [targets EXCEPT ![t] = <<>>]
    /\ listen' = t
    /\ held' = [held EXCEPT ![t] = t]
    /\ mpc' = IF t = "m" THEN Tail(mpc) ELSE mpc
    /\ rpc' = IF t = "r" THEN "call" ELSE rpc
    /\ UNCHANGED <<snapshot, invoked, callback, db_on, signal_on, enq>>

\* _EventSlot.__iadd__: self.targets.append(f)
Iadd ==
    /\ mpc = <<"iadd">>
    /\ targets' = [targets EXCEPT ![held["m"]] = Append(@, callback)]
    /\ mpc' = <<"setattr">>
    /\ UNCHANGED <<listen, held, snapshot, invoked, rpc, callback, db_on,
                   signal_on, enq>>

\* `while f in self.targets: self.targets.remove(f)`, one iteration
UnsubscribeStep ==
    /\ mpc = <<"isub">>
    /\ IF Count(targets[held["m"]], callback) > 0
       THEN /\ targets' = [targets EXCEPT
                              ![held["m"]] = RemoveFirst(@, callback)]
            /\ mpc' = mpc
       ELSE targets' = targets /\ mpc' = <<"setattr">>
    /\ UNCHANGED <<listen, held, snapshot, invoked, rpc, callback, db_on,
                   signal_on, enq>>

\* The assignment that ends `+=` and `-=`: the slot __iadd__ or __isub__
\* returned, the one the statement began with, is stored as the attribute.
SetAttr ==
    /\ mpc = <<"setattr">>
    /\ listen' = held["m"]
    /\ held' = [held EXCEPT !["m"] = NoSlot]
    /\ mpc' = <<>>
    /\ UNCHANGED <<targets, snapshot, invoked, rpc, callback, db_on, signal_on,
                   enq>>

\* The middleware has built `data` for an eligible request (line 199) and
\* reaches `if self.DRF_API_LOGGER_DATABASE and LOGGER_THREAD:`.
BeginDelivery ==
    /\ rpc \in Ended
    /\ rpc' = IF db_on THEN "put" ELSE AfterDatabaseBranch
    /\ snapshot' = <<>>
    /\ invoked' = <<>>
    /\ enq' = FALSE
    /\ held' = [held EXCEPT !["r"] = NoSlot]
    /\ UNCHANGED <<targets, listen, mpc, callback, db_on, signal_on>>

\* put_log_data line 76, self._queue.put: the record is queued, or the call
\* waits on a full queue, or the exception of a signal handler that
\* interrupted the call comes out of it.
QueuePut ==
    /\ rpc = "put"
    /\ \E outcome \in {"queued", "blocked", "raised"} :
          /\ rpc' = CASE outcome = "queued" -> "qsize"
                      [] outcome = "raised" -> "raised_put"
                      [] OTHER -> "blocked"
          /\ enq' = (outcome = "queued")
    /\ UNCHANGED <<targets, listen, held, snapshot, invoked, mpc, callback,
                   db_on, signal_on>>

\* A drain makes room and the blocked queue.put goes on.
Unblock ==
    /\ rpc = "blocked"
    /\ rpc' = "put"
    /\ UNCHANGED <<targets, listen, held, snapshot, invoked, mpc, callback,
                   db_on, signal_on, enq>>

\* How the rest of put_log_data (lines 79-80, with the drain of lines 96-101
\* and the write of lines 113-123) goes on, the record being queued: it
\* returns, or an exception comes out of it, or its drain waits in
\* self._queue.get (line 98) for a queue another drain has emptied.
PutLogDataOutcomes == {"returned", "raised", "waiting"}

PutLogData ==
    /\ rpc = "qsize"
    /\ \E outcome \in PutLogDataOutcomes :
          rpc' = CASE outcome = "returned" -> AfterDatabaseBranch
                   [] outcome = "raised" -> "raised_put"
                   [] OTHER -> "waiting"
    /\ UNCHANGED <<targets, listen, held, snapshot, invoked, mpc, callback,
                   db_on, signal_on, enq>>

\* Another thread's put gives the waiting get a record, and the drain goes on.
AnotherPut ==
    /\ rpc = "waiting"
    /\ rpc' = "qsize"
    /\ UNCHANGED <<targets, listen, held, snapshot, invoked, mpc, callback,
                   db_on, signal_on, enq>>

\* Line 222 reads API_LOGGER_SIGNAL.listen.
Listen ==
    /\ rpc = "listen"
    /\ rpc' = IF listen = NoSlot THEN "getattr" ELSE "call"
    /\ held' = [held EXCEPT !["r"] = listen]
    /\ UNCHANGED <<targets, listen, snapshot, invoked, mpc, callback, db_on,
                   signal_on, enq>>

\* _EventSlot.__call__ of the slot read is entered: `tuple(self.targets)`
Call ==
    /\ rpc = "call"
    /\ snapshot' = targets[held["r"]]
    /\ invoked' = <<>>
    /\ rpc' = "dispatch"
    /\ UNCHANGED <<targets, listen, held, mpc, callback, db_on, signal_on, enq>>

\* One iteration of `for f in tuple(self.targets): f(*a, **kw)`; an exception
\* of f leaves the loop and __call__, and the middleware's __call__ after it.
Invoke ==
    /\ rpc = "dispatch"
    /\ Len(invoked) < Len(snapshot)
    /\ LET f == snapshot[Len(invoked) + 1] IN
          /\ invoked' = Append(invoked, f)
          /\ rpc' = IF Raises(f) THEN "raised_listen" ELSE rpc
    /\ UNCHANGED <<targets, listen, held, snapshot, mpc, callback, db_on,
                   signal_on, enq>>

\* The loop is over; __call__ returns and the middleware returns the response.
EndDispatch ==
    /\ rpc = "dispatch"
    /\ Len(invoked) = Len(snapshot)
    /\ rpc' = "returned"
    /\ UNCHANGED <<targets, listen, held, snapshot, invoked, mpc, callback,
                   db_on, signal_on, enq>>

----------------------------------------------------------------------------
(* utils.mask_sensitive_data                                               *)
(*                                                                         *)
(* A Python value is a pair <<type, content>>: the type is "str", "dict",  *)
(* "list", or "other" for None, numbers and booleans.                      *)
(* A str is the sequence of its pieces, each piece a run of characters     *)
(* (the text "mytoken=x" is <<"my", "token", "=", "x">>); a dict is the    *)
(* function from its keys to its values; a list is the sequence of its     *)
(* items.                                                                  *)

\* utils.SENSITIVE_KEYS, without settings.DRF_API_LOGGER_EXCLUDE_KEYS.
SENSITIVE_KEYS == <<"password", "token", "access", "refresh">>

FILTERED == "***FILTERED***"

Str(s) == <<"str", s>>
Dict(f) == <<"dict", f>>
List(l) == <<"list", l>>
Other == <<"other", <<>>>>
Type(x) == x[1]
Content(x) == x[2]

\* Longest str, in pieces, and longest list the model passes in.
MaxLen == 4
MaxList == 2

\* The pieces a str is made of.
Symbols == {"token", "password", "my", "=", "&", "x"}
Strings == UNION {[1..n -> Symbols] : n \in 0..MaxLen}

\* The values passed in: every str, and dicts and lists nested two deep
\* over a few scalars.
Scalars == {Str(<<"x">>), Str(<<"token", "=", "x">>), Other}
DictKeys == {"password", "user"}
Dicts(V) == {Dict(f) : f \in UNION {[K -> V] : K \in SUBSET DictKeys}}
Lists(V) == {List(l) : l \in UNION {[1..n -> V] : n \in 0..MaxList}}
Flat == Scalars \cup Dicts(Scalars) \cup Lists(Scalars)
Values == {Str(s) : s \in Strings} \cup Flat \cup Dicts(Flat) \cup Lists(Flat)

\* `key in SENSITIVE_KEYS`.
BadSensitive(key) == key \in Range(Tail(SENSITIVE_KEYS))
Sensitive(key) == key \in Range(SENSITIVE_KEYS)

\* Index of the first "&" of s, 0 when it has none.
RECURSIVE FirstAmp(_)
FirstAmp(s) ==
    IF s = <<>> THEN 0
    ELSE IF Head(s) = "&" THEN 1
    ELSE LET n == FirstAmp(Tail(s)) IN IF n = 0 THEN 0 ELSE n + 1

\* A substitution that puts the mask in front of the value of a leading
\* `key=` and keeps the value.
BadReSub(key, s) ==
    IF Len(s) >= 2 /\ s[1] = key /\ s[2] = "="
    THEN <<key, "=", FILTERED>> \o SubSeq(s, 3, Len(s))
    ELSE s

\* re.sub('(key=)(.*?)($|&)', r'\1***FILTERED***\3', s): from the left, each
\* `key=` wherever it stands, with the shortest text up to the next "&" or
\* the end of the string; the search resumes after that "&".
RECURSIVE ReSub(_, _)
ReSub(key, s) ==
    IF Len(s) < 2 THEN s
    ELSE IF s[1] = key /\ s[2] = "="
    THEN LET rest == SubSeq(s, 3, Len(s))
             n == FirstAmp(rest)
         IN  IF n = 0 THEN <<key, "=", FILTERED>>
             ELSE <<key, "=", FILTERED, "&">>
                      \o ReSub(key, SubSeq(rest, n + 1, Len(rest)))
    ELSE <<Head(s)>> \o ReSub(key, Tail(s))

\* `for sensitive_key in SENSITIVE_KEYS: data = re.sub(...)`, from the i-th key.
RECURSIVE MaskQueryParams(_, _)
MaskQueryParams(s, i) ==
    IF i > Len(SENSITIVE_KEYS) THEN s
    ELSE MaskQueryParams(ReSub(SENSITIVE_KEYS[i], s), i + 1)

\* The value mask_sensitive_data(data, mask_api_parameters) returns.  The
\* recursive calls do not pass mask_api_parameters on, so it is False there.
RECURSIVE mask_sensitive_data(_, _)
mask_sensitive_data(data, mask_api_parameters) ==
    IF Type(data) # "dict"
    THEN LET subbed == IF mask_api_parameters /\ Type(data) = "str"
                       THEN Str(MaskQueryParams(Content(data), 1))
                       ELSE data
         IN  IF Type(subbed) = "list"
             THEN List([i \in DOMAIN Content(subbed) |->
                           mask_sensitive_data(Content(subbed)[i], FALSE)])
             ELSE subbed
    ELSE Dict([key \in DOMAIN Content(data) |->
                 IF Sensitive(key) THEN Str(<<FILTERED>>)
                 ELSE IF Type(Content(data)[key]) = "dict"
                 THEN mask_sensitive_data(Content(data)[key], FALSE)
                 ELSE IF Type(Content(data)[key]) = "list"
                 THEN List([i \in DOMAIN Content(Content(data)[key]) |->
                               mask_sensitive_data(Content(Content(data)[key])[i], FALSE)])
                 ELSE Content(data)[key]])

\* What the object passed as `data` holds when the call has returned.  A
\* dict is assigned into (`data[key] = ...`) and is itself what is returned;
\* a list is left as it is and a new list is returned, but the dicts among
\* its items are assigned into by the recursive calls; a str is immutable.
RECURSIVE Mutated(_, _)
Mutated(data, mask_api_parameters) ==
    IF Type(data) = "dict" THEN mask_sensitive_data(data, mask_api_parameters)
    ELSE IF Type(data) = "list"
    THEN List([i \in DOMAIN Content(data) |-> Mutated(Content(data)[i], FALSE)])
    ELSE data

NotCalled == <<"not called", <<>>>>

RedactIdle ==
    /\ arg = Other
    /\ flag = FALSE
    /\ result = NotCalled
    /\ passed = Other

RedactInit ==
    /\ arg \in Values
    /\ flag \in BOOLEAN
    /\ result = NotCalled
    /\ passed = arg

\* result = mask_sensitive_data(arg, flag)
MaskSensitiveData ==
    /\ result = NotCalled
    /\ result' = mask_sensitive_data(arg, flag)
    /\ arg' = Mutated(arg, flag)
    /\ UNCHANGED <<flag, passed>>

----------------------------------------------------------------------------
(* APILoggerMiddleware.is_static_or_media_request                          *)
(*                                                                         *)
(* A path or URL prefix is a str whose pieces are "/" and path segments    *)
(* with their closing slash: '/media/x/' is <<"/", "media/", "x/">>.       *)

\* Longest path, in pieces.
MaxPath == 3

PathSymbols == {"/", "static/", "media/", "api/"}
Paths == {Str(s) : s \in {q \in UNION {[1..n -> PathSymbols] : n \in 1..MaxPath} :
                             q[1] = "/"}}

\* A setting that settings does not define.
Unset == <<"unset", <<>>>>
\* STATIC_URL / MEDIA_URL: not defined, None, '', '/', '/static/', '/media/'.
UrlSettings ==
    {Unset, Other, Str(<<>>), Str(<<"/">>), Str(<<"/", "static/">>),
     Str(<<"/", "media/">>)}

\* getattr(settings, name, default)
GetAttr(setting, default) == IF setting = Unset THEN default ELSE setting

\* s.startswith(prefix) for strs.
StartsWith(s, prefix) ==
    /\ Len(prefix) <= Len(s)
    /\ SubSeq(s, 1, Len(prefix)) = prefix

\* What is_static_or_media_request(path) does: "True", "False", or
\* "TypeError" when str.startswith is given None.
IsStaticOrMediaRequest(p, static_setting, media_setting) ==
    LET static_url == GetAttr(static_setting, Str(<<"/", "static/">>))
        media_url == GetAttr(media_setting, Str(<<"/", "media/">>))
    IN  IF static_url = Str(<<"/">>) \/ media_url = Str(<<"/">>) THEN "False"
        ELSE IF Type(static_url) # "str" THEN "TypeError"
        ELSE IF StartsWith(Content(p), Content(static_url)) THEN "True"
        ELSE IF Type(media_url) # "str" THEN "TypeError"
        ELSE IF StartsWith(Content(p), Content(media_url)) THEN "True"
        ELSE "False"

StaticIdle ==
    /\ path = Str(<<"/">>)
    /\ STATIC_URL = Unset
    /\ MEDIA_URL = Unset
    /\ is_static = "not called"

StaticInit ==
    /\ path \in Paths
    /\ STATIC_URL \in UrlSettings
    /\ MEDIA_URL \in UrlSettings
    /\ is_static = "not called"

\* self.is_static_or_media_request(request.path)
CallIsStaticOrMediaRequest ==
    /\ is_static = "not called"
    /\ is_static' = IsStaticOrMediaRequest(path, STATIC_URL, MEDIA_URL)
    /\ UNCHANGED <<path, STATIC_URL, MEDIA_URL>>

----------------------------------------------------------------------------
(* APILoggerMiddleware.__call__                                            *)
(*                                                                         *)
(* One request goes through __call__ step by step.  DRF_API_LOGGER_DATABASE,*)
(* DRF_API_LOGGER_SIGNAL, LOGGER_THREAD and DRF_API_LOGGER_ENABLE_TRACING  *)
(* are fixed from the start; every other setting is read at one place of   *)
(* __call__ and is drawn by the step that reads it, together with the part *)
(* of the request or response that step looks at.                          *)

\* request.body or response.content that is empty, or is not JSON.
Empty == <<"empty", <<>>>>
Malformed == <<"malformed", <<>>>>

\* What json.loads gives for the bodies of the model: {}, {"password": "x"},
\* [].
Parsed ==
    {Dict(<<>>), Dict([k \in {"password"} |-> Str(<<"x">>)]), List(<<>>)}

\* A body: what it parses to and how many bytes it is (JSON text can carry
\* any amount of white space, and a str of any length under one key).
Bodies ==
    {[content |-> Empty, length |-> 0], [content |-> Malformed, length |-> 20]}
    \cup [content : Parsed, length : {20, 5000}]

\* DRF_API_LOGGER_MAX_REQUEST_BODY_SIZE / ..._MAX_RESPONSE_BODY_SIZE.
BodySizeCaps == {-1, 0, 1000}

\* The number of characters of the fixed strs the middleware writes.
Chars(piece) ==
    CASE piece = "** GZIP Archive **" -> 18
      [] piece = "** Binary File **" -> 17
      [] piece = "** Streaming **" -> 15
      [] piece = "** Calendar **" -> 14
      [] OTHER -> 1

RECURSIVE StrLen(_)
StrLen(s) == IF s = <<>> THEN 0 ELSE Chars(Head(s)) + StrLen(Tail(s))

\* sys.getsizeof(v) on 64-bit CPython 3.11: the size of the object itself,
\* not of what it refers to.
Getsizeof(v) ==
    CASE Type(v) = "dict" -> IF DOMAIN Content(v) = {} THEN 64 ELSE 184
      [] Type(v) = "list" -> 56 + 8 * Len(Content(v))
      [] Type(v) = "str" -> 49 + StrLen(Content(v))
      [] OTHER -> 16

\* bool(v) for the values the middleware tests.
Truthy(v) ==
    CASE Type(v) = "str" -> Content(v) # <<>>
      [] Type(v) = "dict" -> DOMAIN Content(v) # {}
      [] Type(v) = "list" -> Content(v) # <<>>
      [] Type(v) = "other" -> FALSE
      [] OTHER -> TRUE

\* Lines 120-130: request_data after the try block.  json.loads raising is
\* caught (`except Exception: pass`) and leaves request_data = ''.
RequestData(body, cap) ==
    IF body.content \in {Empty, Malformed} THEN Str(<<>>)
    ELSE IF cap > -1 /\ Getsizeof(body.content) > cap THEN Str(<<>>)
    ELSE body.content

\* settings.DRF_API_LOGGER_TRACING_FUNC resolved to a callable returning r.
Callable(r) == <<"callable", r>>
Uuid4 == Str(<<"uuid4">>)

TracingHeaderNames == {Other, Str(<<"X_TRACE_ID">>)}
\* headers.get(name): no such header, an empty one, one with a value.
HeaderValues == {Other, Str(<<>>), Str(<<"h1">>)}
TracingFuncs == {Other, Callable(Str(<<"f1">>)), Callable(Other)}

\* Lines 132-143 with DRF_API_LOGGER_ENABLE_TRACING on: the header's value if
\* the header name is configured and the value is truthy, else the
\* callback's result if one is configured, else str(uuid.uuid4()).
BadResolveTracingId(header_name, header_value, tracing_func_name) ==
    IF tracing_func_name # Other THEN tracing_func_name[2]
    ELSE IF Truthy(header_name) /\ Truthy(header_value) THEN header_value
    ELSE Uuid4
ResolveTracingId(header_name, header_value, tracing_func_name) ==
    LET from_header == IF Truthy(header_name) THEN header_value ELSE Other
    IN  IF Truthy(from_header) THEN from_header
        ELSE IF tracing_func_name # Other THEN tracing_func_name[2]
        ELSE Uuid4

\* Lines 158-164.
DefaultContentTypes ==
    {"application/json", "application/vnd.api+json", "application/gzip",
     "application/octet-stream", "text/calendar"}

\* re.match(r"^application\/vnd\..+\+json$", content_type), on the content
\* types of the model.
VendorJson(content_type) == content_type = "application/vnd.x+json"

\* settings.DRF_API_LOGGER_CONTENT_TYPES: not set, or a list.
ContentTypeSettings == {{}, {"application/vnd.x+json", "text/html"}}

\* Lines 158-170: self.DRF_API_LOGGER_CONTENT_TYPES.
ContentTypes(setting) ==
    DefaultContentTypes \cup {c \in setting : VendorJson(c)}

ResponseContentTypes ==
    DefaultContentTypes \cup {"application/vnd.x+json", "text/html"}

\* Lines 173-186: response_body before the size cap; "JSONDecodeError" when
\* json.loads raises, which nothing in __call__ catches.
JSONDecodeError == <<"JSONDecodeError", <<>>>>
CapturedResponse(content_type, streaming, body) ==
    IF content_type = "application/gzip" THEN Str(<<"** GZIP Archive **">>)
    ELSE IF content_type = "application/octet-stream"
    THEN Str(<<"** Binary File **">>)
    ELSE IF streaming THEN Str(<<"** Streaming **">>)
    ELSE IF content_type = "text/calendar" THEN Str(<<"** Calendar **">>)
    ELSE IF body.content \in {Empty, Malformed} THEN JSONDecodeError
    ELSE body.content

\* Lines 187-189.
ResponseBody(captured, cap) ==
    IF cap > -1 /\ Getsizeof(captured) > cap THEN Str(<<>>) ELSE captured

\* Lines 199-209: the record, with the fields the model follows.
Data ==
    [body |-> mask_sensitive_data(request_data, FALSE),
     method |-> method,
     response |-> mask_sensitive_data(response_body, FALSE),
     status_code |-> status_code,
     tracing_id |-> Unset]

\* Lines 218-221: `if tracing_id: data.update({'tracing_id': tracing_id})`.
WithTracing(data) ==
    IF Truthy(tracing_id) THEN [data EXCEPT !.tracing_id = tracing_id] ELSE data

\* json.dumps(v, indent=4, ensure_ascii=False): a str, the JSON text of v.
JsonDumps(v) == <<"json", v>>

\* Lines 212, 214, 215: `json.dumps(...) if d.get(...) else ''`.
DumpsOrEmpty(v) == IF Truthy(v) THEN JsonDumps(v) ELSE Str(<<>>)

\* Lines 211-215: d = data.copy(), its response replaced by text, its body
\* too but only `if request_data:`.
Copy(data) ==
    [data EXCEPT !.body = IF Truthy(request_data) THEN DumpsOrEmpty(@) ELSE @,
                 !.response = DumpsOrEmpty(@)]

\* resolve(request.path_info): url_name and namespace, or Resolver404.
Resolutions ==
    [url_name : {"users", "health"}, namespace : {"", "admin", "internal"}]
SkipUrlNames == {{}, {"health"}}
SkipNamespaces == {{}, {"internal"}}
Methods == {"GET", "POST"}
MethodAllowLists == {<<>>, <<"GET">>}
StatusCodes == {200, 404}
StatusCodeAllowLists == {<<>>, <<200>>}

\* self.get_response as __call__ uses it.  `calls` counts its invocations;
\* the response object made by the n-th invocation is n; `response` is the
\* local variable and `returned` the value __call__ returned (0: none).
NoView == [calls |-> 0, response |-> 0, returned |-> 0]

\* Lines 148, 226: response = self.get_response(request)
CallView(v) == [v EXCEPT !.calls = @ + 1, !.response = v.calls + 1]

\* Lines 152, 156, 224, 227: return response
Return(v) == [v EXCEPT !.returned = v.response]

\* Lines 92, 102, 106, 110: return self.get_response(request)
BadReturnCall(v) == Return(v)
ReturnCall(v) == Return(CallView(v))

\* Lines 152, 156, 224: a filter that rejects returns the response; __call__
\* goes on when none does.
BadAfterFilters(skip, on) == on
AfterFilters(skip, on) == IF skip = "no" THEN on ELSE "returned"

MiddlewareIdle ==
    /\ conf = [DATABASE |-> FALSE, SIGNAL |-> FALSE, LOGGER_THREAD |-> FALSE,
               ENABLE_TRACING |-> FALSE]
    /\ at = "idle"
    /\ seen = [step |-> "none"]
    /\ skipped = "no"
    /\ method = ""
    /\ status_code = 0
    /\ request_data = Unset
    /\ tracing_id = Unset
    /\ request_tracing_id = Unset
    /\ response_body = Unset
    /\ content_types = {}
    /\ record = Unset
    /\ queued = <<>>
    /\ dispatched = <<>>
    /\ view = NoView

MiddlewareInit ==
    /\ conf \in [DATABASE : BOOLEAN, SIGNAL : BOOLEAN, LOGGER_THREAD : BOOLEAN,
                 ENABLE_TRACING : BOOLEAN]
    /\ at = "call"
    /\ seen = [step |-> "none"]
    /\ skipped = "no"
    /\ method = ""
    /\ status_code = 0
    /\ request_data = Unset
    /\ tracing_id = Unset
    /\ request_tracing_id = Unset
    /\ response_body = Unset
    /\ content_types = {}
    /\ record = Unset
    /\ queued = <<>>
    /\ dispatched = <<>>
    /\ view = NoView

\* Lines 91-92 and 95, 225-226: the static/media test, then the test that a
\* channel is on.  A rejected request goes to the view and its response is
\* returned.
StaticOrEnabled ==
    /\ at = "call"
    /\ \E p \in {Str(<<"/", "static/", "api/">>), Str(<<"/", "api/">>)},
          s \in {Unset, Other}, m \in {Unset, Str(<<"/">>)} :
          LET r == IsStaticOrMediaRequest(p, s, m)
          IN  /\ seen' = [step |-> "static", path |-> p, STATIC_URL |-> s,
                          MEDIA_URL |-> m]
              /\ at' = IF r = "TypeError" THEN "raised"
                       ELSE IF r = "True" THEN "returned"
                       ELSE IF conf.DATABASE \/ conf.SIGNAL THEN "resolve"
                       ELSE "returned"
              /\ skipped' = IF r = "True" THEN "static"
                            ELSE IF r = "False" /\ ~(conf.DATABASE \/ conf.SIGNAL)
                            THEN "disabled"
                            ELSE "no"
              /\ view' = IF skipped' = "static" THEN ReturnCall(view)
                         ELSE IF skipped' = "disabled"
                         THEN Return(CallView(view))
                         ELSE view
    /\ UNCHANGED <<conf, method, status_code, request_data, tracing_id,
                   request_tracing_id, response_body, content_types, record,
                   queued, dispatched>>

\* Lines 97-110: resolve, then the admin, url-name and namespace filters.
Resolve ==
    /\ at = "resolve"
    /\ \E r \in Resolutions, names \in SkipUrlNames, spaces \in SkipNamespaces :
          /\ seen' = [step |-> "resolve", url_name |-> r.url_name,
                      namespace |-> r.namespace,
                      DRF_API_LOGGER_SKIP_URL_NAME |-> names,
                      DRF_API_LOGGER_SKIP_NAMESPACE |-> spaces]
          /\ skipped' = IF r.namespace = "admin" THEN "admin"
                        ELSE IF r.url_name \in names THEN "url_name"
                        ELSE IF r.namespace \in spaces THEN "namespace"
                        ELSE "no"
          /\ at' = IF skipped' = "no" THEN "body" ELSE "returned"
          /\ view' = IF skipped' = "no" THEN view ELSE ReturnCall(view)
    /\ UNCHANGED <<conf, method, status_code, request_data, tracing_id,
                   request_tracing_id, response_body, content_types, record,
                   queued, dispatched>>

\* resolve raises Resolver404 for a path no URL pattern matches.
ResolveFails ==
    /\ at = "resolve"
    /\ at' = "raised"
    /\ seen' = [step |-> "resolve404"]
    /\ UNCHANGED <<conf, skipped, method, status_code, request_data, tracing_id,
                   request_tracing_id, response_body, content_types, record,
                   queued, dispatched, view>>

\* Lines 117-130: method and request_data.
ReadBody ==
    /\ at = "body"
    /\ \E m \in Methods, body \in Bodies, cap \in BodySizeCaps :
          /\ method' = m
          /\ request_data' = RequestData(body, cap)
          /\ seen' = [step |-> "body", body |-> body,
                      DRF_API_LOGGER_MAX_REQUEST_BODY_SIZE |-> cap]
    /\ at' = "tracing"
    /\ UNCHANGED <<conf, skipped, status_code, tracing_id, request_tracing_id,
                   response_body, content_types, record, queued, dispatched,
                   view>>

\* Lines 132-144.
Tracing ==
    /\ at = "tracing"
    /\ IF conf.ENABLE_TRACING
       THEN \E name \in TracingHeaderNames, value \in HeaderValues,
               func \in TracingFuncs :
               /\ tracing_id' = ResolveTracingId(name, value, func)
               /\ request_tracing_id' = tracing_id'
               /\ seen' = [step |-> "tracing",
                           DRF_API_LOGGER_TRACING_ID_HEADER_NAME |-> name,
                           header |-> value, tracing_func_name |-> func]
       ELSE /\ tracing_id' = Other
            /\ UNCHANGED request_tracing_id
            /\ seen' = [step |-> "no tracing"]
    /\ at' = "view"
    /\ UNCHANGED <<conf, skipped, method, status_code, request_data,
                   response_body, content_types, record, queued, dispatched,
                   view>>

\* Line 148: response = self.get_response(request); the view runs.
GetResponse ==
    /\ at = "view"
    /\ \E status \in StatusCodes : status_code' = status
    /\ view' = CallView(view)
    /\ seen' = [step |-> "view"]
    /\ at' = "filters"
    /\ UNCHANGED <<conf, skipped, method, request_data, tracing_id,
                   request_tracing_id, response_body, content_types, record,
                   queued, dispatched>>

\* Lines 151-170: the status-code and method filters, each returning the
\* response when it rejects; then the list of content types is written on
\* the middleware object, which all requests share.
Filters ==
    /\ at = "filters"
    /\ \E codes \in StatusCodeAllowLists, methods \in MethodAllowLists,
          types \in ContentTypeSettings :
          /\ seen' = [step |-> "filters", DRF_API_LOGGER_STATUS_CODES |-> codes,
                      DRF_API_LOGGER_METHODS |-> methods,
                      DRF_API_LOGGER_CONTENT_TYPES |-> types]
          /\ skipped' = IF codes # <<>> /\ status_code \notin Range(codes)
                        THEN "status_code"
                        ELSE IF Len(methods) > 0 /\ method \notin Range(methods)
                        THEN "method"
                        ELSE "no"
          /\ content_types' = IF skipped' = "no" THEN ContentTypes(types)
                              ELSE content_types
          /\ at' = AfterFilters(skipped', "content_type")
          /\ view' = IF at' = "returned" THEN Return(view) ELSE view
    /\ UNCHANGED <<conf, method, status_code, request_data, tracing_id,
                   request_tracing_id, response_body, record, queued,
                   dispatched>>

\* Another request is in __call__ of the same middleware object: its line
\* 158 puts a new list of the defaults in self.DRF_API_LOGGER_CONTENT_TYPES,
\* its lines 168-170 append the vendor types of the settings to it.
OtherRequestWritesContentTypes ==
    /\ at = "content_type"
    /\ \E written \in {DefaultContentTypes,
                        ContentTypes(seen.DRF_API_LOGGER_CONTENT_TYPES)} :
          /\ written # content_types
          /\ content_types' = written
    /\ UNCHANGED <<conf, at, seen, skipped, method, status_code, request_data,
                   tracing_id, request_tracing_id, response_body, record,
                   queued, dispatched, view>>

\* Lines 172 and 223-224: the response's content type is looked up in the
\* list as it is now; the response is returned when it is not there.
TestContentType ==
    /\ at = "content_type"
    /\ \E content_type \in ResponseContentTypes :
          /\ seen' = [step |-> "content_type",
                      DRF_API_LOGGER_CONTENT_TYPES |->
                          seen.DRF_API_LOGGER_CONTENT_TYPES,
                      content_type |-> content_type]
          /\ skipped' = IF content_type \in content_types THEN "no"
                        ELSE "content_type"
          /\ at' = AfterFilters(skipped', "capture")
          /\ view' = IF at' = "returned" THEN Return(view) ELSE view
    /\ UNCHANGED <<conf, method, status_code, request_data, tracing_id,
                   request_tracing_id, response_body, content_types, record,
                   queued, dispatched>>

\* Lines 173-189: response_body.
Capture ==
    /\ at = "capture"
    /\ \E streaming \in BOOLEAN, body \in Bodies, cap \in BodySizeCaps :
          LET captured == CapturedResponse(seen.content_type, streaming, body)
          IN  /\ seen' = [step |-> "capture",
                          content_type |-> seen.content_type,
                          streaming |-> streaming, body |-> body,
                          DRF_API_LOGGER_MAX_RESPONSE_BODY_SIZE |-> cap]
              /\ IF captured = JSONDecodeError
                 THEN at' = "raised" /\ UNCHANGED response_body
                 ELSE /\ at' = "deliver"
                      /\ response_body' = ResponseBody(captured, cap)
    /\ UNCHANGED <<conf, skipped, method, status_code, request_data, tracing_id,
                   request_tracing_id, content_types, record, queued, dispatched,
                   view>>

\* Lines 190-209: data = dict(...).  mask_sensitive_data assigns into the
\* dicts it is given, so request_data and response_body are masked too.
BuildData ==
    /\ at = "deliver"
    /\ record' = Data
    /\ request_data' = Mutated(request_data, FALSE)
    /\ response_body' = Mutated(response_body, FALSE)
    /\ seen' = [step |-> "data"]
    /\ at' = "put"
    /\ UNCHANGED <<conf, skipped, method, status_code, tracing_id,
                   request_tracing_id, content_types, queued, dispatched, view>>

\* Lines 210-216: with the database channel on, the copy d goes to
\* put_log_data, which returns or raises; when it raises, the statements
\* after it do not run.
QueueRecord ==
    /\ at = "put"
    /\ \E put \in {"returned", "raised"} :
          LET to_db == conf.DATABASE /\ conf.LOGGER_THREAD
          IN  /\ queued' = IF to_db THEN <<Copy(record)>> ELSE <<>>
              /\ at' = IF to_db /\ put = "raised" THEN "raised" ELSE "listen"
              /\ seen' = [step |-> "put",
                          put_log_data |-> IF to_db THEN put ELSE "not called"]
    /\ UNCHANGED <<conf, skipped, method, status_code, request_data, tracing_id,
                   request_tracing_id, response_body, content_types, record,
                   dispatched, view>>

\* Lines 217-227: with the signal channel on, the tracing id is put in data
\* and data goes to listen, which returns or raises; then the response is
\* returned.
DispatchRecord ==
    /\ at = "listen"
    /\ \E outcome \in {"returned", "raised"} :
          /\ record' = IF conf.SIGNAL THEN WithTracing(record) ELSE record
          /\ dispatched' = IF conf.SIGNAL THEN <<record'>> ELSE <<>>
          /\ at' = IF conf.SIGNAL /\ outcome = "raised"
                   THEN "raised" ELSE "returned"
          /\ seen' = [step |-> "listen",
                      listen |-> IF conf.SIGNAL THEN outcome ELSE "not called"]
          /\ view' = IF at' = "returned" THEN Return(view) ELSE view
    /\ UNCHANGED <<conf, skipped, method, status_code, request_data, tracing_id,
                   request_tracing_id, response_body, content_types, queued>>

BuilderIdle == RedactIdle /\ StaticIdle /\ MiddlewareIdle

----------------------------------------------------------------------------
PipelineInit ==
    /\ queue = <<>>
    /\ pc = [t \in Threads |->
                IF t = Flusher THEN "while" ELSE "idle"]
    /\ bulk_item = [t \in Threads |-> <<>>]
    /\ stop_event = FALSE
    /\ sink = {}
    /\ printed = 0
    /\ enqueued = 0
    /\ signals = 0
    /\ drain_mark = [t \in Threads |-> 0]
    /\ brought_full = [p \in Producers |-> FALSE]
    /\ at_exit = {}

Init == PipelineInit /\ ConfigIdle /\ DispatchIdle /\ BuilderIdle

\* A request thread enters put_log_data (the middleware's
\* LOGGER_THREAD.put_log_data(data=d)); a thread whose previous call raised
\* serves its next request the same way.
CallPut(p) ==
    /\ pc[p] \in {"idle", "raised"}
    /\ ~Suspended(p, pc)
    /\ Calls < MaxRecords
    /\ pc' = [pc EXCEPT ![p] = "put"]
    /\ UNCHANGED <<queue, bulk_item, stop_event, sink, printed, enqueued,
                   signals, drain_mark, brought_full, at_exit>>
    /\ UNCHANGED outside_pipeline

\* self._queue.put(APILogsModel(**data))
Put(p) ==
    /\ pc[p] = "put"
    /\ ~Suspended(p, pc)
    /\ MutexFree(pc)
    /\ PutAllowed(queue)
    /\ enqueued' = enqueued + 1
    /\ queue' = Append(queue, enqueued')
    /\ pc' = [pc EXCEPT ![p] = "qsize"]
    /\ brought_full' = [brought_full EXCEPT
                           ![p] = (Len(queue') = DRF_LOGGER_QUEUE_MAX_SIZE)]
    /\ UNCHANGED <<bulk_item, stop_event, sink, printed, signals, drain_mark,
                   at_exit>>
    /\ UNCHANGED outside_pipeline

\* if self._queue.qsize() >= self.DRF_LOGGER_QUEUE_MAX_SIZE:
\*     self._start_bulk_insertion()
CheckSize(p) ==
    /\ pc[p] = "qsize"
    /\ ~Suspended(p, pc)
    /\ MutexFree(pc)
    /\ pc' = [pc EXCEPT ![p] = IF CapacityReached(queue) THEN "empty" ELSE "idle"]
    /\ brought_full' = [brought_full EXCEPT ![p] = FALSE]
    /\ UNCHANGED <<queue, bulk_item, stop_event, sink, printed, enqueued,
                   signals, drain_mark, at_exit>>
    /\ UNCHANGED outside_pipeline

\* while not self._stop_event.is_set():
LoopTest ==
    /\ pc[Flusher] = "while"
    /\ pc' = [pc EXCEPT ![Flusher] = AfterLoopTest(stop_event)]
    /\ UNCHANGED <<queue, bulk_item, stop_event, sink, printed, enqueued,
                   signals, drain_mark, brought_full, at_exit>>
    /\ UNCHANGED outside_pipeline

\* time.sleep(self.DRF_LOGGER_INTERVAL) ends; self._start_bulk_insertion()
TimerFires ==
    /\ pc[Flusher] = "sleep"
    /\ pc' = [pc EXCEPT ![Flusher] = "empty"]
    /\ UNCHANGED <<queue, bulk_item, stop_event, sink, printed, enqueued,
                   signals, drain_mark, brought_full, at_exit>>
    /\ UNCHANGED outside_pipeline

\* A signal arrives and _clean_exit starts on the main thread:
\* self._stop_event.set(), then self._start_bulk_insertion(), whose first
\* Queue.empty waits for ever when the signal found the main thread inside a
\* Queue call.
CleanExit ==
    /\ pc[Handler] \in {"idle", "returned", "raised"}
    /\ signals < MaxSignals
    /\ signals' = signals + 1
    /\ stop_event' = TRUE
    /\ at_exit' = Range(queue)
    /\ \E inside \in {FALSE, InQueueCall(Main, pc)} :
          pc' = [pc EXCEPT ![Handler] = IF inside THEN "mutex" ELSE "empty"]
    /\ UNCHANGED <<queue, bulk_item, sink, printed, enqueued, drain_mark,
                   brought_full>>
    /\ UNCHANGED outside_pipeline

\* _start_bulk_insertion: `while not self._queue.empty():` and, when the loop
\* ends, `if bulk_item:`
TestEmpty(t) ==
    /\ pc[t] = "empty"
    /\ ~Suspended(t, pc)
    /\ MutexFree(pc)
    /\ pc' = [pc EXCEPT ![t] =
                 IF ~QueueEmpty(queue) THEN "get"
                 ELSE AfterLoop(t)]
    /\ drain_mark' = [drain_mark EXCEPT ![t] =
                         IF pc'[t] \in {"get", "insert"} THEN @ ELSE 0]
    /\ at_exit' = IF t = Handler /\ pc'[t] = Returned(t) THEN {} ELSE at_exit
    /\ UNCHANGED <<queue, bulk_item, stop_event, sink, printed, enqueued,
                   signals, brought_full>>
    /\ UNCHANGED outside_pipeline

\* bulk_item.append(self._queue.get())
Get(t) ==
    /\ pc[t] = "get"
    /\ ~Suspended(t, pc)
    /\ MutexFree(pc)
    /\ queue # <<>>
    /\ bulk_item' = [bulk_item EXCEPT ![t] = Appended(@, queue)]
    /\ queue' = AfterGet(queue)
    /\ drain_mark' = [drain_mark EXCEPT ![t] =
                         IF bulk_item[t] = <<>> THEN enqueued ELSE @]
    /\ pc' = [pc EXCEPT ![t] = "empty"]
    /\ UNCHANGED <<stop_event, sink, printed, enqueued, signals, brought_full,
                   at_exit>>
    /\ UNCHANGED outside_pipeline

\* What an exception that leaves _clean_exit does to the call of
\* put_log_data it interrupted, by where the signal found that call.
\*   "unwound"  outside the try of _insert_into_data_base and outside its
\*              handlers: the call ends by raising;
\*   "caught"   inside the try (lines 113-114) and outside bulk_create, before
\*              it is called (in objects.using) or after it has returned:
\*              `except Exception` catches the exception and prints it;
\*   "cut"      inside bulk_create: the exception ends that call, and is then
\*              caught and printed the same way;
\*   "printed"  in the `except Exception` handler after its print: nothing
\*              catches the exception there, the call ends by raising.
Interrupted(frames) ==
    IF frames[Main] \in {"idle", "raised"} THEN {"none"}
    ELSE IF frames[Main] = "insert" THEN {"unwound", "caught", "cut"}
    ELSE IF frames[Main] = "inserted" THEN {"unwound", "caught"}
    ELSE IF frames[Main] = "except" THEN {"unwound", "printed"}
    ELSE {"unwound"}

\* The lines the interrupted call prints, and where it ends.
InterruptedPrints(hit) == IF hit \in {"caught", "cut", "printed"} THEN 1 ELSE 0
InterruptedEnds(hit) == IF hit \in {"caught", "cut"} THEN Returned(Main) ELSE "raised"

\* self._insert_into_data_base(bulk_item): bulk_create gets the list, and the
\* caller goes on by its outcome.  When the caller is _clean_exit and the
\* exception leaves it, the call of the main thread it interrupted ends too,
\* and the list of that call's drain is gone with its frame; a bulk_create
\* of that call which the exception cut short has failed with it.
Insert(t) ==
    /\ pc[t] = "insert"
    /\ ~Suspended(t, pc)
    /\ \E outcome \in SinkOutcomes :
        \E hit \in IF t = Handler /\ AfterInsert(t, outcome) = "raised"
                       THEN Interrupted(pc) ELSE {"none"} :
          LET ends == AfterInsert(t, outcome) \in {"raised", Returned(t)}
          IN
          /\ sink' = sink \cup {[items |-> bulk_item[t], outcome |-> outcome]}
                     \cup (IF hit = "cut"
                              THEN {[items |-> bulk_item[Main], outcome |-> "Exception"]}
                              ELSE {})
          /\ printed' = printed + (IF ends THEN Prints(outcome) ELSE 0)
                                 + InterruptedPrints(hit)
          /\ pc' = [pc EXCEPT ![t] = AfterInsert(t, outcome),
                              ![Main] = IF hit = "none" THEN @
                                        ELSE InterruptedEnds(hit)]
          /\ bulk_item' = [bulk_item EXCEPT
                              ![Main] = IF hit = "none" THEN @ ELSE <<>>,
                              ![t] = IF ends THEN <<>> ELSE @]
          /\ drain_mark' = [drain_mark EXCEPT
                               ![Main] = IF hit = "none" THEN @ ELSE 0,
                               ![t] = IF ends THEN 0 ELSE @]
          /\ brought_full' = [brought_full EXCEPT
                                 ![Main] = IF hit = "none" THEN @ ELSE FALSE]
    /\ at_exit' = IF t = Handler THEN {} ELSE at_exit
    /\ UNCHANGED <<queue, stop_event, enqueued, signals>>
    /\ UNCHANGED outside_pipeline

\* The main thread leaves _insert_into_data_base after its bulk_create: out
\* of the try when the call has returned, through print('DRF API LOGGER
\* EXCEPTION:', e) when it has raised; _start_bulk_insertion then returns.
LeaveInsert(t) ==
    /\ pc[t] \in {"inserted", "except"}
    /\ ~Suspended(t, pc)
    /\ printed' = printed + (IF pc[t] = "except" THEN Prints("Exception") ELSE 0)
    /\ pc' = [pc EXCEPT ![t] = Returned(t)]
    /\ bulk_item' = [bulk_item EXCEPT ![t] = <<>>]
    /\ drain_mark' = [drain_mark EXCEPT ![t] = 0]
    /\ UNCHANGED <<queue, stop_event, sink, enqueued, signals, brought_full,
                   at_exit>>
    /\ UNCHANGED outside_pipeline

Next ==
    \/ \E p \in Producers : CallPut(p)
    \/ \E p \in Producers : Put(p)
    \/ \E p \in Producers : CheckSize(p)
    \/ LoopTest
    \/ TimerFires
    \/ CleanExit
    \/ \E t \in Threads : TestEmpty(t)
    \/ \E t \in Threads : Get(t)
    \/ \E t \in Threads : Insert(t)
    \/ \E t \in Threads : LeaveInsert(t)

Spec == Init /\ [][Next]_vars

\* The steps of one thread once it runs: the interpreter gives every thread
\* that can take a step its turn, and time.sleep returns.  A request arriving
\* (CallPut) and a signal arriving (CleanExit) come from outside and are
\* promised by nothing.
ProducerStep(p) == Put(p) \/ CheckSize(p)
DrainStep(t) == TestEmpty(t) \/ Get(t) \/ Insert(t) \/ LeaveInsert(t)

\* The pipeline under fair scheduling of its threads.
Fairness ==
    /\ \A p \in Producers : WF_vars(ProducerStep(p))
    /\ WF_vars(LoopTest \/ TimerFires)
    /\ \A t \in Threads : WF_vars(DrainStep(t))

SpecFair == Init /\ [][Next]_vars /\ Fairness

\* A worker that serves one request at a time: put_log_data is entered only
\* when no other call of it is in progress.
SingleCallPut(p) ==
    /\ \A q \in Producers \ {p} : pc[q] \in {"idle", "raised"}
    /\ CallPut(p)

SingleNext ==
    \/ \E p \in Producers : SingleCallPut(p)
    \/ \E p \in Producers : Put(p)
    \/ \E p \in Producers : CheckSize(p)
    \/ LoopTest
    \/ TimerFires
    \/ CleanExit
    \/ \E t \in Threads : TestEmpty(t)
    \/ \E t \in Threads : Get(t)
    \/ \E t \in Threads : Insert(t)
    \/ \E t \in Threads : LeaveInsert(t)

SpecSingle == Init /\ [][SingleNext]_vars

\* The same under fair scheduling of the threads.
SpecSingleFair == Init /\ [][SingleNext]_vars /\ Fairness

\* The constructor alone, over all the settings.
ConfigNext == NewThread /\ UNCHANGED <<pipeline_vars, dispatch_vars, builder_vars>>

InitConfig == PipelineInit /\ ConfigInit /\ DispatchIdle /\ BuilderIdle

SpecConfig == InitConfig /\ [][ConfigNext]_vars

\* The start-up code alone.
ReadyNext ==
    \/ Ready /\ UNCHANGED <<pipeline_vars, dispatch_vars, builder_vars>>
    \/ ImportStartLogger /\ UNCHANGED <<pipeline_vars, dispatch_vars, builder_vars>>
    \/ BindLoggerThread /\ UNCHANGED <<pipeline_vars, dispatch_vars, builder_vars>>
    \/ ThreadEnds /\ UNCHANGED <<pipeline_vars, dispatch_vars, builder_vars>>

InitReady == PipelineInit /\ ReadyInit /\ DispatchIdle /\ BuilderIdle

SpecReady == InitReady /\ [][ReadyNext]_vars

\* What the subscriber list and the delivery leave alone.
outside_dispatch == <<pipeline_vars, config_vars, builder_vars>>

\* The subscriber list and the delivery of records alone.
DispatchNext ==
    \/ \E c \in Callbacks, op \in {"iadd", "isub"} :
          BeginSubscribe(c, op) /\ UNCHANGED outside_dispatch
    \/ \E t \in SlotObjects : StoreNewSlot(t) /\ UNCHANGED outside_dispatch
    \/ Iadd /\ UNCHANGED outside_dispatch
    \/ UnsubscribeStep /\ UNCHANGED outside_dispatch
    \/ SetAttr /\ UNCHANGED outside_dispatch
    \/ BeginDelivery /\ UNCHANGED outside_dispatch
    \/ QueuePut /\ UNCHANGED outside_dispatch
    \/ Unblock /\ UNCHANGED outside_dispatch
    \/ PutLogData /\ UNCHANGED outside_dispatch
    \/ AnotherPut /\ UNCHANGED outside_dispatch
    \/ Listen /\ UNCHANGED outside_dispatch
    \/ Call /\ UNCHANGED outside_dispatch
    \/ Invoke /\ UNCHANGED outside_dispatch
    \/ EndDispatch /\ UNCHANGED outside_dispatch

InitDispatch == PipelineInit /\ ConfigIdle /\ DispatchInit /\ BuilderIdle

SpecDispatch == InitDispatch /\ [][DispatchNext]_vars

\* mask_sensitive_data alone, over all the values.
RedactNext ==
    MaskSensitiveData
    /\ UNCHANGED <<pipeline_vars, config_vars, dispatch_vars, static_vars,
                   middleware_vars>>

InitRedact ==
    /\ PipelineInit /\ ConfigIdle /\ DispatchIdle
    /\ RedactInit /\ StaticIdle /\ MiddlewareIdle

SpecRedact == InitRedact /\ [][RedactNext]_vars

\* is_static_or_media_request alone, over paths and the two settings.
StaticNext ==
    CallIsStaticOrMediaRequest
    /\ UNCHANGED <<pipeline_vars, config_vars, dispatch_vars, redact_vars,
                   middleware_vars>>

InitStatic ==
    /\ PipelineInit /\ ConfigIdle /\ DispatchIdle
    /\ RedactIdle /\ StaticInit /\ MiddlewareIdle

SpecStatic == InitStatic /\ [][StaticNext]_vars

\* One request through the middleware.
outside_middleware ==
    <<pipeline_vars, config_vars, dispatch_vars, redact_vars, static_vars>>

MiddlewareNext ==
    \/ StaticOrEnabled /\ UNCHANGED outside_middleware
    \/ Resolve /\ UNCHANGED outside_middleware
    \/ ResolveFails /\ UNCHANGED outside_middleware
    \/ ReadBody /\ UNCHANGED outside_middleware
    \/ Tracing /\ UNCHANGED outside_middleware
    \/ GetResponse /\ UNCHANGED outside_middleware
    \/ Filters /\ UNCHANGED outside_middleware
    \/ OtherRequestWritesContentTypes /\ UNCHANGED outside_middleware
    \/ TestContentType /\ UNCHANGED outside_middleware
    \/ Capture /\ UNCHANGED outside_middleware
    \/ BuildData /\ UNCHANGED outside_middleware
    \/ QueueRecord /\ UNCHANGED outside_middleware
    \/ DispatchRecord /\ UNCHANGED outside_middleware

InitMiddleware ==
    /\ PipelineInit /\ ConfigIdle /\ DispatchIdle
    /\ RedactIdle /\ StaticIdle /\ MiddlewareInit

SpecMiddleware == InitMiddleware /\ [][MiddlewareNext]_vars

----------------------------------------------------------------------------
(* Where the records are *)

\* The list thread t has dequeued into and not yet handed to bulk_create.
Collecting(t) == IF pc[t] \in Draining THEN bulk_item[t] ELSE <<>>

\* The records some thread has dequeued and not yet handed to bulk_create.
Held == UNION {Range(Collecting(t)) : t \in Threads}

\* The records handed to bulk_create so far.
Sunk == UNION {Range(b.items) : b \in sink}

\* The number of places record r is in: queue slots, slots of a list being
\* collected, batches.
Copies(r) ==
    Cardinality({i \in DOMAIN queue : queue[i] = r})
    + Cardinality({x \in UNION {{<<t, i>> : i \in DOMAIN Collecting(t)} : t \in Threads} :
                      bulk_item[x[1]][x[2]] = r})
    + Cardinality({b \in sink : r \in Range(b.items)})

\* The records of batch b are nowhere else: not queued again, not held by a
\* drain, not in another batch.
Gone(b) ==
    /\ Range(b.items) \cap (Range(queue) \cup Held) = {}
    /\ \A c \in sink \ {b} : Range(c.items) \cap Range(b.items) = {}

----------------------------------------------------------------------------
(* The claims *)

\* C1: under every interleaving of put_log_data with timer-, capacity- and
\* shutdown-triggered drains, every record enqueued so far is in exactly one
\* place: still queued, or in one drain's bulk_item, or in one batch handed to
\* bulk_create.  So no record is in two batches and none leaves the queue
\* without being placed in a batch.
C1_EachRecordInOneBatch == \A r \in 1..enqueued : Copies(r) = 1

\* C2: a drain's batch is the content the queue had at one instant: every
\* record of the batch was already enqueued when the drain took its first
\* record, and a record enqueued after that is left for the next batch.
C2_DrainIsAtomic ==
    \A t \in Threads :
        \A i \in DOMAIN bulk_item[t] : bulk_item[t][i] <= drain_mark[t]

\* C3: the queue never holds more than DRF_LOGGER_QUEUE_MAX_SIZE records; a
\* producer whose put finds it full stays in put, and leaves put only by
\* appending its record to the queue (the record is never dropped).
C3_BoundedBlockingPut ==
    /\ [](Len(queue) <= DRF_LOGGER_QUEUE_MAX_SIZE)
    /\ [][\A p \in Producers :
             pc[p] = "put" =>
                /\ Len(queue) >= DRF_LOGGER_QUEUE_MAX_SIZE => pc'[p] = "put"
                /\ pc'[p] # "put" =>
                      /\ pc'[p] = "qsize"
                      /\ queue' = Append(queue, enqueued')
                      /\ enqueued' = enqueued + 1]_vars

\* C4 as stated: a put_log_data call whose put brought the queue to capacity
\* starts a drain as part of that call.
C4_FullPutStartsDrain ==
    [][\A p \in Producers :
          (brought_full[p] /\ pc[p] = "qsize" /\ pc'[p] # "qsize")
             => pc'[p] = "empty"]_vars

\* C4 amended: the call starts a drain exactly when its size check, made after
\* its put, finds at least DRF_LOGGER_QUEUE_MAX_SIZE records queued; a call
\* whose put brought the queue to capacity returns without draining only when
\* the queue is below capacity again at that check.  A call that never gets
\* to its size check, ended before it by the exception of the signal handler
\* that interrupted it, starts no drain.
C4_SizeCheckStartsDrain ==
    [][\A p \in Producers :
          (pc[p] = "qsize" /\ pc'[p] # "qsize") =>
             \/ /\ pc'[p] \in {"empty", "idle"}
                /\ pc'[p] = "empty" <=> Len(queue) >= DRF_LOGGER_QUEUE_MAX_SIZE
                /\ (brought_full[p] /\ pc'[p] = "idle")
                      => Len(queue) < DRF_LOGGER_QUEUE_MAX_SIZE
             \/ /\ pc'[p] = "raised"
                /\ p = Main
                /\ pc[Handler] = "insert"
                /\ pc'[Handler] = "raised"]_vars

\* A producer has started a drain on a full queue while the flusher is still
\* asleep.
C4_Witness ==
    \E p \in Producers :
        /\ pc[p] = "empty"
        /\ bulk_item[p] = <<>>
        /\ Len(queue) = DRF_LOGGER_QUEUE_MAX_SIZE
        /\ pc[Flusher] = "sleep"

\* C5: at the step where _clean_exit returns, every record that was queued
\* when it was invoked has been handed to bulk_create.
C5_ShutdownFlushesQueued ==
    [][(pc[Handler] # "returned" /\ pc'[Handler] = "returned")
          => at_exit \subseteq Sunk']_vars

\* C6: the flusher starts no timer-triggered drain once the stop flag is set.
C6_NoTimerDrainAfterStop ==
    [][(pc[Flusher] = "sleep" /\ pc'[Flusher] = "empty") => ~stop_event]_vars

\* C7: whatever the sink does during the shutdown drain, _clean_exit returns
\* normally: it never ends by raising.
C7_ShutdownNeverRaises == pc[Handler] # "raised"

\* C8: when bulk_create fails with OperationalError the caller of
\* _insert_into_data_base gets an exception (and with no other outcome of
\* bulk_create), and the batch is not retried: its records are not queued
\* again, not held by a drain and in no other batch.
C8_TargetMissingRaises ==
    /\ [](\A b \in sink : b.outcome = "OperationalError" => Gone(b))
    /\ [][\A t \in Threads :
             \A b \in sink' \ sink :
                (pc[t] = "insert" /\ b.items = bulk_item[t]) =>
                   /\ pc'[t] # "insert"
                   /\ b.outcome = "OperationalError" <=> pc'[t] = "raised"]_vars

\* The flusher thread has died of the exception, its batch was handed over
\* once, and records enqueued later wait in the queue.
C8_Witness ==
    /\ pc[Flusher] = "raised"
    /\ \E b \in sink : b.outcome = "OperationalError"
    /\ queue # <<>>

\* C9: when bulk_create fails with any other exception, the batch is
\* discarded (its records are nowhere else, now or later), and the caller
\* goes on as after a successful write, printing one line for the failure:
\* the producer's call returns, the flusher goes back to its loop test,
\* _clean_exit returns; no call ends by raising.
C9_OtherFailureDiscards ==
    /\ [](\A b \in sink : b.outcome = "Exception" => Gone(b))
    /\ [][\A t \in Threads :
             /\ (pc[t] = "insert" /\ pc'[t] # "insert"
                   /\ \E b \in sink' \ sink :
                         b.items = bulk_item[t] /\ b.outcome = "Exception")
                => \/ pc'[t] = "except"
                   \/ /\ pc'[t] = Returned(t)
                      /\ bulk_item'[t] = <<>>
                      /\ printed' = printed + 1
             /\ (pc[t] = "except" /\ pc'[t] # "except")
                => /\ pc'[t] = Returned(t)
                   /\ bulk_item'[t] = <<>>
                   /\ printed' = printed + 1]_vars

\* C10: a producer's put_log_data call never ends by raising.
C10_ProducerNeverRaises == \A p \in Producers : pc[p] # "raised"

\* C11: a producer inside put_log_data waits for nothing but a full queue:
\* it never waits for a bulk_create call to finish, and never for a record to
\* dequeue.
C11_ProducerWaitsOnlyOnFullQueue ==
    \A p \in Producers :
        /\ pc[p] # "insert"
        /\ ~(pc[p] = "get" /\ queue = <<>>)

\* C12: the flusher is the only consumer: no producer thread executes
\* _start_bulk_insertion, and no two threads execute it at the same time.
C12_SingleConsumer ==
    /\ \A p \in Producers : pc[p] \notin Draining
    /\ Cardinality({t \in Threads : pc[t] \in Draining}) <= 1

\* C13: in every batch, handed to bulk_create or still being collected, the
\* records are in the order in which their puts completed (the n-th completed
\* put is record n), under every interleaving of producers and drains.
C13_BatchInEnqueueOrder ==
    /\ \A b \in sink :
          \A i \in DOMAIN b.items : \A j \in DOMAIN b.items :
              i < j => b.items[i] < b.items[j]
    /\ \A t \in Threads :
          \A i \in DOMAIN bulk_item[t] : \A j \in DOMAIN bulk_item[t] :
              i < j => bulk_item[t][i] < bulk_item[t][j]

\* A batch handed over by one drain while another drain took the record in
\* between: records 1 and 3, in that order.
C13_Witness == \E b \in sink : b.items = <<1, 3>>

\* C14: a drain that finds nothing hands nothing to bulk_create: no drain
\* reaches _insert_into_data_base with an empty list, and no batch in the sink
\* is empty.
C14_NoEmptyBatch ==
    /\ \A t \in Threads : pc[t] = "insert" => bulk_item[t] # <<>>
    /\ \A b \in sink : b.items # <<>>

\* Every record enqueued went out in one batch, and the shutdown drain that
\* followed a drain with no put in between returned having written nothing
\* more.
C14_Witness ==
    /\ pc[Handler] = "returned"
    /\ pc[Flusher] = "stopped"
    /\ \A p \in Producers : pc[p] = "idle"
    /\ enqueued > 0
    /\ queue = <<>>
    /\ Cardinality(sink) = 1

\* C15 as stated: the flusher's loop has ended only if the stop flag is set.
C15_FlusherEndsOnlyOnStop ==
    pc[Flusher] \in {"stopped", "raised"} => stop_event

\* C15 amended: the flusher's loop ends either at its loop test, with the
\* stop flag set, or by the exception _insert_into_data_base raises for an
\* OperationalError; a sink failure of any other kind never ends it.
C15_FlusherEndsOnStopOrTargetMissing ==
    /\ pc[Flusher] = "stopped" => stop_event
    /\ pc[Flusher] = "raised" => \E b \in sink : b.outcome = "OperationalError"

\* The flusher has survived a printed sink failure and then left its loop on
\* the stop flag.
C15_Witness ==
    /\ pc[Flusher] = "stopped"
    /\ sink # {}
    /\ \A b \in sink : b.outcome = "Exception"

\* C16 as stated: the constructor raises if and only if the configured queue
\* capacity is below 1 or the configured interval is below 1.
C16_FailsIffCapacityOrIntervalInvalid ==
    thread # NotConstructed =>
        (thread.error # "none" <=>
            \/ (settings.capacity.set /\ settings.capacity.value < 1)
            \/ (settings.interval.set /\ settings.interval.value < 1))

\* C16 amended: the constructor raises the capacity or interval exception
\* exactly when that configured value is below 1 (capacity first); otherwise it
\* raises only for a custom handler path that cannot be imported or when it is
\* run outside the main thread; in every other case it succeeds with the
\* configured values, or 50, 10 and 'default' for the absent ones.
C16_ConstructorValidates ==
    thread # NotConstructed =>
        LET badCapacity == settings.capacity.set /\ settings.capacity.value < 1
            badInterval == settings.interval.set /\ settings.interval.value < 1
        IN  /\ thread.error = "DRF_LOGGER_QUEUE_MAX_SIZE must be greater than 0"
                  <=> badCapacity
            /\ thread.error = "DRF_LOGGER_INTERVAL must be greater than 0"
                  <=> (~badCapacity /\ badInterval)
            /\ thread.error = "none"
                  <=> /\ ~badCapacity
                      /\ ~badInterval
                      /\ settings.handler # "unimportable"
                      /\ in_main
            /\ thread.error = "none" =>
                  /\ thread.capacity = IF settings.capacity.set
                                       THEN settings.capacity.value ELSE 50
                  /\ thread.interval = IF settings.interval.set
                                       THEN settings.interval.value ELSE 10
                  /\ thread.database = IF settings.database.set
                                       THEN settings.database.value ELSE "default"

\* The constructor has succeeded on the defaults of capacity and interval and
\* a configured database.
C16_Witness ==
    /\ thread # NotConstructed
    /\ thread.error = "none"
    /\ ~settings.capacity.set
    /\ ~settings.interval.set
    /\ thread.capacity = 50
    /\ thread.interval = 10
    /\ thread.database = "custom_db"

\* C17: a dispatch never ends by raising to its caller, whatever its
\* subscribers do.
C17_DispatchNeverRaises == rpc # "raised_listen"

\* C18: a dispatch that has ended has invoked exactly the subscribers that were
\* registered when it started, in their order, whatever was added or removed
\* meanwhile.
C18_DispatchInvokesSnapshot ==
    rpc \in {"returned", "raised_listen"} => invoked = snapshot

\* C19: a dispatch that has ended has invoked every callback once per
\* occurrence registered: k occurrences, k invocations.
C19_OneInvocationPerOccurrence ==
    rpc \in {"returned", "raised_listen"} =>
        \A c \in Callbacks : Count(invoked, c) = Count(snapshot, c)

\* C20: with signal dispatch enabled the record reaches the dispatcher whatever
\* the buffered path does: the delivery never ends in put_log_data's exception,
\* before listen was called.
C20_DispatchedWhateverBufferDoes == signal_on => rpc # "raised_put"

----------------------------------------------------------------------------
(* Redaction *)

\* out is `original` with, at every depth, the entries under a redaction key
\* replaced by the mask and nothing else changed.
RECURSIVE RedactedFrom(_, _)
RedactedFrom(out, original) ==
    IF Type(original) = "dict"
    THEN /\ Type(out) = "dict"
         /\ DOMAIN Content(out) = DOMAIN Content(original)
         /\ \A k \in DOMAIN Content(original) :
               IF k \in Range(SENSITIVE_KEYS)
               THEN Content(out)[k] = Str(<<FILTERED>>)
               ELSE RedactedFrom(Content(out)[k], Content(original)[k])
    ELSE IF Type(original) = "list"
    THEN /\ Type(out) = "list"
         /\ Len(Content(out)) = Len(Content(original))
         /\ \A i \in DOMAIN Content(original) : RedactedFrom(Content(out)[i], Content(original)[i])
    ELSE out = original

\* C21: for a value built from nested dicts and lists, mask_sensitive_data
\* returns a value of the same shape in which, at every depth, each entry
\* whose key is in SENSITIVE_KEYS is '***FILTERED***' and every other entry
\* keeps its (recursively redacted) value; no key is added or removed.
C21_MaskedAtEveryDepth ==
    (result # NotCalled /\ Type(passed) \in {"dict", "list"})
        => RedactedFrom(result, passed)

\* A dict in a dict: the inner password is masked, the inner and outer
\* "user" entries are kept.
C21_Witness ==
    /\ passed = Dict([k \in {"user"} |->
                        Dict([j \in DictKeys |-> Str(<<"x">>)])])
    /\ result = Dict([k \in {"user"} |->
                        Dict([j \in DictKeys |->
                                 IF j = "password" THEN Str(<<FILTERED>>)
                                 ELSE Str(<<"x">>)])])

\* The '&'-delimited parameters of a str.
RECURSIVE Params(_)
Params(s) ==
    LET n == FirstAmp(s)
    IN  IF n = 0 THEN <<s>>
        ELSE <<SubSeq(s, 1, n - 1)>> \o Params(SubSeq(s, n + 1, Len(s)))

\* The parameter is name=value with a redaction key as the whole name.
ExactKey(p) ==
    /\ Len(p) >= 2
    /\ p[1] \in Range(SENSITIVE_KEYS)
    /\ p[2] = "="

\* C22: in a str redacted with mask_api_parameters=True, the value of every
\* '&'-delimited parameter whose name is a redaction key is replaced by
\* '***FILTERED***'; every parameter whose name is not exactly a key (one
\* that merely ends with a key, say) keeps its text, and the delimiters are
\* preserved.
C22_OnlyExactKeysMasked ==
    (result # NotCalled /\ flag /\ Type(passed) = "str") =>
        LET before == Params(Content(passed))
            after == Params(Content(result))
        IN  /\ Len(after) = Len(before)
            /\ \A i \in DOMAIN before :
                  after[i] = IF ExactKey(before[i])
                             THEN <<before[i][1], "=", FILTERED>>
                             ELSE before[i]

\* C23: for a list, the result is the list of the same length whose i-th
\* item is the i-th item redacted under the same rules as the top-level call
\* (the same mask_api_parameters); a value of another type, and a str when
\* mask_api_parameters is False, is returned unchanged.
C23_ItemsRedactedAsTopLevel ==
    result # NotCalled =>
        /\ Type(passed) = "list" =>
              result = List([i \in DOMAIN Content(passed) |->
                                mask_sensitive_data(Content(passed)[i], flag)])
        /\ (Type(passed) = "other" \/ (Type(passed) = "str" /\ ~flag)) =>
              result = passed

\* C24: when mask_sensitive_data has returned, the value the caller passed
\* in, with everything nested in it, is what it was before the call.
C24_ArgumentUnchanged == result # NotCalled => arg = passed

----------------------------------------------------------------------------
(* Static and media paths *)

\* The setting is None (or not set to anything) or '/'.
UnsetOrRoot(setting) == setting \in {Other, Str(<<"/">>)}

\* A path under neither '/static/' nor '/media/'.
Ordinary(p) ==
    /\ ~StartsWith(Content(p), <<"/", "static/">>)
    /\ ~StartsWith(Content(p), <<"/", "media/">>)

\* The setting is a prefix such as '/media/'.
ProperPrefix(setting) ==
    setting \in {Str(<<"/", "static/">>), Str(<<"/", "media/">>)}

\* C30: is_static_or_media_request returns a boolean for every path and
\* every STATIC_URL and MEDIA_URL; when either is None or '/', ordinary
\* paths are not classified as static or media (False, no exception); when
\* the URLs are proper prefixes it returns True exactly for the paths that
\* start with one of them.
C30_StaticOrMediaIsBoolean ==
    is_static # "not called" =>
        /\ is_static \in {"True", "False"}
        /\ ((UnsetOrRoot(STATIC_URL) \/ UnsetOrRoot(MEDIA_URL)) /\ Ordinary(path))
              => is_static = "False"
        /\ (ProperPrefix(STATIC_URL) /\ ProperPrefix(MEDIA_URL))
              => (is_static = "True"
                    <=> (\/ StartsWith(Content(path), Content(STATIC_URL))
                         \/ StartsWith(Content(path), Content(MEDIA_URL))))

----------------------------------------------------------------------------
(* The middleware *)

\* The filters applied before the view runs, and those applied after it.
EarlyFilters == {"static", "admin", "url_name", "namespace"}
LateFilters == {"status_code", "method", "content_type"}

\* C25 as stated: when an eligibility filter rejects the request, nothing is
\* enqueued, no subscriber is invoked, and the request is left as it was.
C25_SkipLeavesNoTrace ==
    (at = "returned" /\ skipped \in EarlyFilters \cup LateFilters) =>
        /\ queued = <<>>
        /\ dispatched = <<>>
        /\ request_tracing_id = Unset

\* C25: when an eligibility filter rejects the request, nothing is enqueued
\* and nothing is dispatched to subscribers; a filter applied before the view
\* leaves the request untouched, while one applied after the view (status
\* code, method, content type) finds request.tracing_id already set, exactly
\* when tracing is enabled.
C25_SkipProducesNoRecord ==
    (at = "returned" /\ skipped \in EarlyFilters \cup LateFilters) =>
        /\ queued = <<>>
        /\ dispatched = <<>>
        /\ skipped \in EarlyFilters => request_tracing_id = Unset
        /\ skipped \in LateFilters =>
              (request_tracing_id # Unset <=> conf.ENABLE_TRACING)

\* A request rejected by the method allow-list, with both channels on and a
\* tracing id already on the request.
C25_Witness ==
    /\ at = "returned"
    /\ skipped = "method"
    /\ conf.DATABASE /\ conf.LOGGER_THREAD /\ conf.SIGNAL
    /\ request_tracing_id = Uuid4
    /\ queued = <<>>
    /\ dispatched = <<>>

\* The request got past every filter and __call__ has ended.
PassedAllFilters ==
    /\ at \in {"returned", "raised"}
    /\ skipped = "no"
    /\ seen.step \in {"capture", "put", "listen"}

\* C26: an empty method allow-list rejects no method and a non-empty one
\* rejects exactly the methods outside it, likewise for status codes; a
\* request that passes all filters produces exactly one record on each
\* channel that is on.
C26_AllowListsThenOneRecord ==
    /\ seen.step = "filters" =>
          /\ skipped = "status_code" <=>
                (/\ seen.DRF_API_LOGGER_STATUS_CODES # <<>>
                 /\ status_code \notin Range(seen.DRF_API_LOGGER_STATUS_CODES))
          /\ skipped = "method" =>
                (/\ seen.DRF_API_LOGGER_METHODS # <<>>
                 /\ method \notin Range(seen.DRF_API_LOGGER_METHODS))
          /\ (/\ seen.DRF_API_LOGGER_METHODS # <<>>
              /\ method \notin Range(seen.DRF_API_LOGGER_METHODS))
                => skipped \in {"status_code", "method"}
    /\ PassedAllFilters =>
          /\ (conf.DATABASE /\ conf.LOGGER_THREAD) => Len(queued) = 1
          /\ conf.SIGNAL => Len(dispatched) = 1

\* C27: a request body or a response body that cannot be parsed leaves the
\* empty value in its field of the record, and no exception leaves __call__.
C27_ParseFailureNeverPropagates ==
    /\ (seen.step = "body" /\ seen.body.content = Malformed) =>
          (request_data = Str(<<>>) /\ at # "raised")
    /\ (/\ seen.step = "capture"
        /\ seen.body.content = Malformed
        /\ CapturedResponse(seen.content_type, seen.streaming, seen.body)
              = JSONDecodeError) =>
          (response_body = Str(<<>>) /\ at # "raised")

\* The step just taken parsed a JSON body of the response.
ParsedResponse ==
    /\ seen.step = "capture"
    /\ CapturedResponse(seen.content_type, seen.streaming, seen.body) \in Parsed

\* C28: with a body size cap >= 0 a body longer than the cap leaves the empty
\* value in its field, the record still being produced; with the cap at -1
\* a body is never replaced because of its size.
C28_OversizedBodyReplaced ==
    /\ (seen.step = "body" /\ seen.body.content \in Parsed) =>
          /\ (/\ seen.DRF_API_LOGGER_MAX_REQUEST_BODY_SIZE >= 0
              /\ seen.body.length > seen.DRF_API_LOGGER_MAX_REQUEST_BODY_SIZE)
                => request_data = Str(<<>>)
          /\ seen.DRF_API_LOGGER_MAX_REQUEST_BODY_SIZE = -1
                => request_data = seen.body.content
    /\ ParsedResponse =>
          /\ (/\ seen.DRF_API_LOGGER_MAX_RESPONSE_BODY_SIZE >= 0
              /\ seen.body.length > seen.DRF_API_LOGGER_MAX_RESPONSE_BODY_SIZE)
                => response_body = Str(<<>>)
          /\ seen.DRF_API_LOGGER_MAX_RESPONSE_BODY_SIZE = -1
                => response_body = seen.body.content

\* C29: with tracing enabled the id is the configured header's value when the
\* header is configured and present with a non-empty value, otherwise the
\* configured callback's result, otherwise a fresh UUID, and it is set on the
\* request; with tracing disabled no id is resolved, none is set on the
\* request and none is in a record passed on.
C29_TracingIdResolution ==
    /\ seen.step = "tracing" =>
          /\ tracing_id =
                IF /\ seen.DRF_API_LOGGER_TRACING_ID_HEADER_NAME # Other
                   /\ seen.header \notin {Other, Str(<<>>)}
                THEN seen.header
                ELSE IF seen.tracing_func_name # Other
                THEN seen.tracing_func_name[2]
                ELSE Uuid4
          /\ request_tracing_id = tracing_id
    /\ (~conf.ENABLE_TRACING /\ at \notin {"call", "resolve", "body", "tracing"}
        /\ seen.step \notin {"static", "resolve", "resolve404"}) =>
          /\ tracing_id = Other
          /\ request_tracing_id = Unset
          /\ \A i \in DOMAIN queued : queued[i].tracing_id = Unset
          /\ \A i \in DOMAIN dispatched : dispatched[i].tracing_id = Unset

\* The header is configured but empty in the request, and a callback is
\* configured: the id is the callback's result.
C29_Witness ==
    /\ seen.step = "tracing"
    /\ seen.DRF_API_LOGGER_TRACING_ID_HEADER_NAME = Str(<<"X_TRACE_ID">>)
    /\ seen.header = Str(<<>>)
    /\ seen.tracing_func_name = Callable(Str(<<"f1">>))
    /\ tracing_id = Str(<<"f1">>)
    /\ request_tracing_id = Str(<<"f1">>)

\* C31: an exception raised while resolving the request's URL does not leave
\* __call__; the view's response is still returned.
C31_ResolveFailureNeverPropagates ==
    seen.step = "resolve404" => at # "raised"

----------------------------------------------------------------------------
(* The pipeline: batch size, termination and delivery *)

\* C35: every batch handed to the sink holds at most N records, N being the
\* capacity of the queue, even when producers keep enqueuing during a drain.
C35_BatchAtMostCapacity ==
    \A b \in sink : Len(b.items) <= DRF_LOGGER_QUEUE_MAX_SIZE

\* C34: every execution of _start_bulk_insertion terminates once producers
\* stop enqueuing, whatever other drains run at the same time: a thread that
\* is in the drain eventually leaves it (by returning or by raising).
C34_EveryDrainTerminates ==
    \A t \in Threads : (pc[t] \in Draining) ~> (pc[t] \notin Draining)

\* The flusher thread has ended: its loop saw the stop flag, or an exception
\* left run().
FlusherEnded == pc[Flusher] \in {"stopped", "raised"}

\* C33: while the flusher thread runs and the stop flag is not set, under fair
\* scheduling every record whose enqueue completed is eventually in a batch
\* handed to bulk_create (written, or discarded when the write fails).
C33_EnqueuedEventuallySunk ==
    \A r \in 1..MaxRecords :
        (enqueued >= r) ~> (r \in Sunk \/ stop_event \/ FlusherEnded)

\* C37: once the stop flag is set the flusher's loop starts no further
\* time.sleep, so that at most the sleep-and-drain iteration it is in is
\* completed; and the thread then ends, unless the drain it is executing
\* never returns.
C37_FlusherEndsAfterStop ==
    /\ [][stop_event => ~(pc[Flusher] = "while" /\ pc'[Flusher] = "sleep")]_vars
    /\ \/ stop_event ~> FlusherEnded
       \/ <>[](pc[Flusher] \in Draining)

\* The flag was set while the flusher slept; the flusher then drained a
\* record, came back to the loop test and ended.
C37_Witness ==
    /\ stop_event
    /\ pc[Flusher] = "stopped"
    /\ pc[Handler] = "returned"
    /\ \E b \in sink : b.outcome = "ok"

\* No put_log_data call is past its entry: every producer is about to
\* enqueue, or its last call has returned or raised.
NoCallInProgress == \A p \in Producers : pc[p] \in {"idle", "raised", "put"}

\* C36: when put_log_data calls do not overlap, the queue holds fewer than N
\* records whenever a call is entered and whenever it has returned or raised,
\* whatever the sink did; so the call's queue.put never waits for room.
C36_LoneProducerFindsRoom ==
    /\ NoCallInProgress => Len(queue) < DRF_LOGGER_QUEUE_MAX_SIZE
    /\ \A p \in Producers : pc[p] = "put" => PutAllowed(queue)

\* A call whose put filled the queue has drained it, the write failed with
\* OperationalError and the call raised; the next call has been entered.
C36_Witness ==
    /\ pc["p1"] = "raised"
    /\ pc["p2"] = "put"
    /\ \E b \in sink :
          /\ b.outcome = "OperationalError"
          /\ Len(b.items) = DRF_LOGGER_QUEUE_MAX_SIZE
    /\ Len(queue) < DRF_LOGGER_QUEUE_MAX_SIZE

----------------------------------------------------------------------------
(* The middleware and the view *)

\* C38: on every path through __call__ that returns (logging disabled, a
\* filter rejecting the request, or a request fully logged) self.get_response
\* has been invoked exactly once and the response it made is the value
\* returned; on no path is it invoked twice.
C38_ViewCalledOnceAndReturned ==
    /\ view.calls <= 1
    /\ at = "returned" =>
          /\ view.calls = 1
          /\ view.response = 1
          /\ view.returned = view.response

\* A request passed every filter, its record went to both channels, and the
\* response of the one call of the view was returned.
C38_Witness ==
    /\ at = "returned"
    /\ skipped = "no"
    /\ Len(queued) = 1
    /\ Len(dispatched) = 1
    /\ view = [calls |-> 1, response |-> 1, returned |-> 1]

----------------------------------------------------------------------------
(* Redaction as a relation between calls *)

\* The part of a nested value that is not stored under a redaction key: the
\* value with every entry under such a key, at every depth, replaced by one
\* fixed value.  Two values differ only in what is stored under redaction
\* keys exactly when this part of them is the same.
RECURSIVE OutsideKeys(_)
OutsideKeys(v) ==
    IF Type(v) = "dict"
    THEN Dict([key \in DOMAIN Content(v) |->
                 IF key \in Range(SENSITIVE_KEYS) THEN Other
                 ELSE OutsideKeys(Content(v)[key])])
    ELSE IF Type(v) = "list"
    THEN List([i \in DOMAIN Content(v) |-> OutsideKeys(Content(v)[i])])
    ELSE v

\* The dicts and lists among the values.
Nested == {v \in Values : Type(v) \in {"dict", "list"}}

\* C39: two nested dict/list inputs that differ only in the values stored
\* under redaction keys get equal results.  Every input differs from its
\* OutsideKeys part only in those values, and two inputs that differ only in
\* them have the same such part; so the claim is that the result of each
\* input is the result of that part of it.
C39_SensitiveValuesDoNotInterfere ==
    (result # NotCalled /\ passed \in Nested) =>
        result = mask_sensitive_data(OutsideKeys(passed), flag)

\* A list holding a dict with a value under "password": the result is the
\* same as for the list whose dict holds another value there.
C39_Witness ==
    /\ result # NotCalled
    /\ passed = List(<<Dict([password |-> Str(<<"token", "=", "x">>),
                            user |-> Str(<<"x">>)])>>)
    /\ OutsideKeys(passed) # passed
    /\ result = mask_sensitive_data(
                    List(<<Dict([password |-> Str(<<"x">>),
                                 user |-> Str(<<"x">>)])>>), flag)

\* C40: redacting a value that is already redacted, with the same keys and
\* the same mask_api_parameters, returns it unchanged; for nested dicts and
\* lists and for query strings.
C40_RedactionIsIdempotent ==
    result # NotCalled => mask_sensitive_data(result, flag) = result

\* The query string 'token=password=': the pass for "password" masks its
\* empty value, the pass for "token" then masks the whole value of token;
\* masking the result again changes nothing.
C40_Witness ==
    /\ flag
    /\ passed = Str(<<"token", "=", "password", "=">>)
    /\ result = Str(<<"token", "=", FILTERED>>)
    /\ mask_sensitive_data(result, flag) = result

----------------------------------------------------------------------------
(* Start-up *)

\* C32 as stated: after any number of ready() calls at most one flusher
\* thread has been created and started; none is created when database
\* logging is disabled, when a live thread with that name exists, or, in
\* ready(), when RUN_MAIN is set to a value other than 'true'.
C32_AtMostOneThreadCreated ==
    [][/\ startup'.created <= 1
       /\ startup'.created > startup.created =>
             /\ startup.enabled
             /\ startup.named = 0
             /\ startup'.calls > startup.calls =>
                   startup.RUN_MAIN \in {"unset", "true"}]_vars

\* C32: at every moment at most one thread named 'insert_log_into_database'
\* is alive; a step of the start-up code creates at most one thread, and
\* creates none when database logging is disabled, when a live thread with
\* that name exists, or, in ready(), when RUN_MAIN is set to a value other
\* than 'true'.  A thread that has ended is replaced by the next call.
C32_AtMostOneLiveThread ==
    [][/\ startup'.named <= 1
       /\ startup'.created <= startup.created + 1
       /\ startup'.created > startup.created =>
             /\ startup.enabled
             /\ startup.named = 0
             /\ startup'.named = 1
             /\ startup'.calls > startup.calls =>
                   startup.RUN_MAIN \in {"unset", "true"}]_vars

\* The thread the first ready() started has ended and the second ready() has
\* started another one, which is the only live thread of that name.
C32_Witness ==
    /\ startup.pending = "none"
    /\ startup.calls = 2
    /\ startup.created = 2
    /\ startup.named = 1
    /\ startup.LOGGER_THREAD = 2

====
